---------------------------- MODULE Spec2Model ----------------------------
(***************************************************************************)
(* Verification model of the launcher backend:                             *)
(*   - MetadataManager (src/src/backend/metadata/manager.rs): the          *)
(*     memoized metadata cache, one entry guarded by one tokio Mutex;      *)
(*   - do_java_runtime_load / do_asset_objects_load                        *)
(*     (src/src/backend/launch.rs): the download-and-verify tasks run      *)
(*     under futures::future::try_join_all and an 8-permit semaphore.      *)
(* An action is one run of a future between two await points.              *)
(***************************************************************************)
EXTENDS Integers, Sequences, FiniteSets, TLC

VARIABLES
    \* ---- MetadataManager, one MetadataItem ----
    item,        \* the MetadataItem: its kind and its data_hash()
    state,       \* the item's MetaLoadState (behind the tokio Mutex)
    lock,        \* the holder of the entry's tokio Mutex
    tasks,       \* the load tasks spawned on the runtime, in spawn order
    cache_file,  \* content of the item's cache file on disk
    cpc,         \* position of each caller of load / force_reload / fetch
    ret,         \* what fetch last returned to each caller
    msgs,        \* MessageToFrontend values sent by the load tasks
    \* ---- one provisioning call (do_*_load) ----
    kind,        \* which function runs: "java" or "assets"
    dl,          \* the download tasks built by the call
    disk,        \* destination path -> file content
    tpc,         \* position of each download task
    got,         \* the bytes a task holds after its transfer
    permits,     \* free permits of download_semaphore
    started_downloading,
    count,       \* ProgressTracker.count
    total,       \* ProgressTracker.total
    title,       \* ProgressTracker.title
    refreshes,   \* MessageToFrontend::Refresh sent by notify()
    call,        \* position/result of the provisioning call
    dir_exists,  \* whether runtime_component_dir exists
    sent,        \* requests each task has sent in this call
    hist,        \* history: the directory before the call, the tracker's
                 \* first title, the number of the call, how the last ended
    \* ---- the same call, tasks counted by position ----
    sem,         \* position -> number of tasks there
    \* ---- the pure functions of launch.rs ----
    fin,         \* the arguments of the call
    allowed,     \* what check_rules returned
    expanded,    \* what expand_argument returned
    dirname,     \* what calculate_natives_dirname returned
    command,     \* the Command that build returned
    \* ---- do_java_runtime_load and its manifest ----
    unix,        \* cfg!(unix)
    manifest,    \* runtime.files, in the order of the document
    fs,          \* the filesystem
    rcall,       \* position/result of the call
    rtasks,      \* the file tasks of the call
    rlinks,      \* the links map of the call (entries still to apply)
    rtotal,      \* total_size as given to set_total
    created,     \* the nodes the call has made
    \* ---- the backend task and a launch ----
    bpc,            \* position of the backend task
    instances,      \* BackendState.instances
    handled,        \* number of messages received
    meta_manifest,  \* state of the version manifest's metadata entry
    attempt,        \* the launch attempt: the outcome of each of its phases
    launch_tracker, \* the "Launching" ProgressTracker
    java_tracker,   \* the Java runtime ProgressTracker
    assets_tracker, \* the game assets ProgressTracker
    spawned,        \* number of game processes spawned
    \* ---- one ProgressTracker and the callers of set_finished ----
    finished_at,          \* ProgressTrackerInner.finished_at
    finished_with_error,  \* ProgressTrackerInner.finished_with_error
    clock,                \* what Instant::now() returns
    fpc,                  \* position of each caller in set_finished
    cas_log,              \* the compare_exchange calls made, in order
    \* ---- load_mojang_java_binary up to its tracker ----
    jbin,                 \* the inputs, the position and the effects so far
    \* ---- the two provisioning phases of one launch ----
    dual,                 \* phase -> its state, its semaphore and the number
                          \* of its tasks at each position
    \* ---- the two channels between the UI thread and the backend ----
    to_backend,   \* the MessageToBackend values in send_to_backend's queue
    to_frontend,  \* the number of MessageToFrontend values in the other
    ui,           \* the UI thread: idle, or inside blocking_send
    backend,      \* the backend task: in recv, or handling a message
    load_task,    \* sends that load tasks of the MetadataManager will make
    sent_log,     \* history: the messages accepted by send_to_backend
    taken,        \* history: how many of them the backend has received
    \* ---- the SyncingPage and the backend it talks to ----
    pending,      \* SyncingPage.pending
    loading,      \* SyncingPage.loading
    sync_state,   \* SyncingPage.sync_state: target -> the number of
                  \* SetSyncing messages for it that the state reflects
    sync_task,    \* SyncingPage._get_sync_state_task and its oneshot
    sync_chan,    \* the messages the page has sent, oldest first
    processed,    \* target -> SetSyncing messages the backend has processed
    set_sent      \* history: target -> SetSyncing messages the page sent

metaVars == <<item, state, lock, tasks, cache_file, cpc, ret, msgs>>
provVars == <<kind, dl, disk, tpc, got, permits, started_downloading,
              count, total, title, refreshes, call, dir_exists, sent, hist>>
semVars  == <<sem>>
fnVars   == <<fin, allowed, expanded, dirname, command>>
rtVars   == <<unix, manifest, fs, rcall, rtasks, rlinks, rtotal, created>>
launchVars == <<bpc, instances, handled, meta_manifest, attempt,
                launch_tracker, java_tracker, assets_tracker, spawned>>
trackerVars == <<finished_at, finished_with_error, clock, fpc, cas_log>>
entryVars == <<jbin>>
dualVars == <<dual>>
bridgeVars == <<to_backend, to_frontend, ui, backend, load_task, sent_log,
                taken>>
syncVars == <<pending, loading, sync_state, sync_task, sync_chan, processed,
              set_sent>>
lateVars == <<entryVars, dualVars, bridgeVars, syncVars>>
earlyVars == <<metaVars, provVars, semVars, fnVars, rtVars, launchVars,
               trackerVars>>
vars == <<earlyVars, lateVars>>

None == "none"

(***************************************************************************)
(* Byte strings.  A document is a byte string met as a cache file or as a  *)
(* response body; Sha1 and ParsesAsJson are what Sha1::finalize and        *)
(* serde_json::from_slice yield on it.                                     *)
(***************************************************************************)
Docs == {"d1", "d2", "dbad"}

Sha1(d) == CASE d = "d1" -> "H1" [] d = "d2" -> "H2" [] d = "dbad" -> "H3"
             [] d = "b1" -> "S1" [] d = "b2" -> "S2" [] d = "x1" -> "SX"
             [] d = "y2" -> "SY" [] d = "z2" -> "SZ" [] d = "zy" -> "SW"
             [] OTHER -> "S0"

ParsesAsJson(d) == d \in {"d1", "d2"}

\* data_hash() strings: the hex of H1 in both letter cases, the hex of H3
\* (the hash of a document that does not parse) and a string that is not hex.
HashStrings == {"aa11", "AA11", "cc33", "xyz"}

\* hex::decode_to_slice(sha1, &mut [0u8; 20]).ok()
HexDecode(s) == CASE s \in {"aa11", "AA11"} -> "H1"
                  [] s = "cc33" -> "H3"
                  [] s = "5a01" -> "S1"
                  [] s = "5b02" -> "S2"
                  [] OTHER -> None

Items == {[kind |-> "version_manifest", data_hash |-> None],
          [kind |-> "java_runtimes", data_hash |-> None]}
         \cup {[kind |-> "version_info", data_hash |-> s] : s \in HashStrings}

\* let expected_hash = item.data_hash().and_then(|sha1| decode(sha1).ok())
ExpectedHash(i) == IF i.data_hash = None THEN None ELSE HexDecode(i.data_hash)

\* let correct_hash = if let Some(expected_hash) = .. { == } else { true }
CorrectHash(i, d) == ExpectedHash(i) = None \/ ExpectedHash(i) = Sha1(d)

Callers == {"c1", "c2"}
MaxTasks == 2

NoResult == [ok |-> FALSE, val |-> None]
Ok(v) == [ok |-> TRUE, val |-> v]
Err(e) == [ok |-> FALSE, val |-> e]

NoRet == [ok |-> FALSE, val |-> None, from |-> 0]

Unloaded == [tag |-> "Unloaded", handle |-> 0, val |-> None]

\* The task spawned by inner_start_loading.  disk0 and net_failed are
\* history: the cache file the task met and whether its request failed.
NewTask(use_cache) ==
    [pc |-> IF use_cache THEN "read_cache" ELSE "send",
     cache |-> use_cache, file_fallback |-> None, body |-> None,
     requested |-> FALSE, net_failed |-> FALSE, disk0 |-> cache_file,
     result |-> NoResult]

Running(t) == tasks[t].pc # "done"

\* inner_start_loading: spawn the task, *state = Pending(join_handle)
inner_start_loading(use_cache) ==
    /\ Len(tasks) < MaxTasks
    /\ tasks' = Append(tasks, NewTask(use_cache))
    /\ state' = [tag |-> "Pending", handle |-> Len(tasks) + 1, val |-> None]

LoadMustStart_Retry(s) == s.tag \in {"Unloaded", "Error"}
\* load: if matches!(*state, MetaLoadState::Unloaded)
LoadMustStart(s) == s.tag = "Unloaded"

FetchMustStart_NotPending(s) == s.tag # "Pending"
\* inner_fetch: if let MetaLoadState::Unloaded = state
FetchMustStart(s) == s.tag = "Unloaded"

\* inner_fetch on Loaded(value) / Error(meta_load_error)
StateResult(s) == [ok |-> s.tag = "Loaded", val |-> s.val, from |-> s.handle]

\* MetadataManager::load: lock, start if Unloaded, unlock
Load(c) ==
    /\ cpc[c] = "idle" /\ lock = None
    /\ IF LoadMustStart(state) THEN inner_start_loading(TRUE)
       ELSE UNCHANGED <<state, tasks>>
    /\ UNCHANGED <<item, lock, cache_file, cpc, ret, msgs>>
    /\ UNCHANGED <<provVars, semVars, fnVars, rtVars, launchVars, trackerVars,
                   lateVars>>

\* MetadataManager::force_reload: lock, start with no cache file, unlock
ForceReload(c) ==
    /\ cpc[c] = "idle" /\ lock = None
    /\ inner_start_loading(FALSE)
    /\ UNCHANGED <<item, lock, cache_file, cpc, ret, msgs>>
    /\ UNCHANGED <<provVars, semVars, fnVars, rtVars, launchVars, trackerVars,
                   lateVars>>

\* MetadataManager::fetch up to inner_fetch's join_handle.await: the guard
\* of the Mutex lives until fetch returns
Fetch(c) ==
    /\ cpc[c] = "idle" /\ lock = None
    /\ IF FetchMustStart(state) THEN inner_start_loading(TRUE)
       ELSE UNCHANGED <<state, tasks>>
    /\ IF state'.tag = "Pending"
       THEN /\ lock' = c
            /\ cpc' = [cpc EXCEPT ![c] = "join"]
            /\ UNCHANGED ret
       ELSE /\ ret' = [ret EXCEPT ![c] = StateResult(state')]
            /\ UNCHANGED <<lock, cpc>>
    /\ UNCHANGED <<item, cache_file, msgs>>
    /\ UNCHANGED <<provVars, semVars, fnVars, rtVars, launchVars, trackerVars,
                   lateVars>>

\* inner_fetch after join_handle.await: store Loaded / Error, return, unlock
FetchJoin(c) ==
    /\ cpc[c] = "join" /\ lock = c
    /\ state.tag = "Pending" /\ ~Running(state.handle)
    /\ LET r == tasks[state.handle].result IN
       /\ state' = [tag |-> IF r.ok THEN "Loaded" ELSE "Error",
                    handle |-> state.handle, val |-> r.val]
       /\ ret' = [ret EXCEPT ![c] = StateResult(state')]
    /\ lock' = None
    /\ cpc' = [cpc EXCEPT ![c] = "idle"]
    /\ UNCHANGED <<item, tasks, cache_file, msgs>>
    /\ UNCHANGED <<provVars, semVars, fnVars, rtVars, launchVars, trackerVars,
                   lateVars>>

\* The end of the spawned block: the fallback, try_send_to_backend, result
Finish(t, net_result) ==
    LET result == IF ~net_result.ok /\ tasks[t].file_fallback # None
                  THEN Ok(tasks[t].file_fallback) ELSE net_result
    IN /\ tasks' = [tasks EXCEPT ![t].pc = "done", ![t].result = result,
                                 ![t].net_failed = ~net_result.ok]
       /\ msgs' = IF item.kind = "version_manifest"
                  THEN Append(msgs, [type |-> "VersionManifestUpdated",
                                     value |-> result])
                  ELSE msgs

\* The task's tokio::fs::read(&cache_file) and what follows it
TaskReadCache(t) ==
    /\ tasks[t].pc = "read_cache"
    /\ UNCHANGED msgs
    /\ IF cache_file # None /\ CorrectHash(item, cache_file)
          /\ ParsesAsJson(cache_file)
       THEN IF ExpectedHash(item) # None
            THEN tasks' = [tasks EXCEPT ![t].pc = "done",
                                        ![t].disk0 = cache_file,
                                        ![t].result = Ok(cache_file)]
            ELSE tasks' = [tasks EXCEPT ![t].pc = "send",
                                        ![t].disk0 = cache_file,
                                        ![t].file_fallback = cache_file]
       ELSE tasks' = [tasks EXCEPT ![t].pc = "send", ![t].disk0 = cache_file]
    /\ UNCHANGED <<item, state, lock, cache_file, cpc, ret>>
    /\ UNCHANGED <<provVars, semVars, fnVars, rtVars, launchVars, trackerVars,
                   lateVars>>

\* http_client.get(url).send(): the request is on the wire
TaskSend(t) ==
    /\ tasks[t].pc = "send"
    /\ tasks' = [tasks EXCEPT ![t].pc = "recv", ![t].requested = TRUE]
    /\ UNCHANGED <<item, state, lock, cache_file, cpc, ret, msgs>>
    /\ UNCHANGED <<provVars, semVars, fnVars, rtVars, launchVars, trackerVars,
                   lateVars>>

\* What the inner async block yields on response r before it writes
NetResult(i, r) ==
    IF r = "NetErr" THEN Err("Reqwest")
    ELSE IF ~ParsesAsJson(r) THEN Err("SerdeJson")
    ELSE IF ~CorrectHash(i, r) THEN Err("InvalidHash")
    ELSE Ok(r)

\* send()/bytes() complete: decode, check the hash; then write or finish
TaskRecv(t) ==
    /\ tasks[t].pc = "recv"
    /\ \E r \in Docs \cup {"NetErr"} :
         LET nr == NetResult(item, r) IN
         IF nr.ok /\ tasks[t].cache
         THEN /\ tasks' = [tasks EXCEPT ![t].pc = "write", ![t].body = r]
              /\ UNCHANGED msgs
         ELSE Finish(t, nr)
    /\ UNCHANGED <<item, state, lock, cache_file, cpc, ret>>
    /\ UNCHANGED <<provVars, semVars, fnVars, rtVars, launchVars, trackerVars,
                   lateVars>>

\* let _ = tokio::fs::write(cache_file, bytes): it may fail, silently
TaskWrite(t) ==
    /\ tasks[t].pc = "write"
    /\ \E written \in BOOLEAN :
         cache_file' = IF written THEN tasks[t].body ELSE cache_file
    /\ Finish(t, Ok(tasks[t].body))
    /\ UNCHANGED <<item, state, lock, cpc, ret>>
    /\ UNCHANGED <<provVars, semVars, fnVars, rtVars, launchVars, trackerVars,
                   lateVars>>

IdleProv ==
    /\ kind = "assets"
    /\ dl = <<>>
    /\ disk = <<>>
    /\ tpc = <<>>
    /\ got = <<>>
    /\ permits = 0
    /\ started_downloading = FALSE
    /\ count = 0
    /\ total = 0
    /\ title = None
    /\ refreshes = 0
    /\ call = [st |-> "idle", err |-> None, by |-> 0]
    /\ dir_exists = TRUE
    /\ sent = <<>>
    /\ hist = <<>>

IdleSem == sem = <<>>

IdleRt ==
    /\ unix = TRUE
    /\ manifest = <<>>
    /\ fs = <<>>
    /\ rcall = [st |-> "idle", err |-> None]
    /\ rtasks = <<>>
    /\ rlinks = {}
    /\ rtotal = 0
    /\ created = {}

IdleLaunch ==
    /\ bpc = "off"
    /\ instances = <<>>
    /\ handled = 0
    /\ meta_manifest = "Unloaded"
    /\ attempt = <<>>
    /\ launch_tracker = <<>>
    /\ java_tracker = <<>>
    /\ assets_tracker = <<>>
    /\ spawned = 0

IdleTracker ==
    /\ finished_at = <<>>
    /\ finished_with_error = FALSE
    /\ clock = 0
    /\ fpc = <<>>
    /\ cas_log = <<>>

IdleEntry == jbin = <<>>

IdleDual == dual = <<>>

IdleBridge ==
    /\ to_backend = <<>>
    /\ to_frontend = 0
    /\ ui = <<>>
    /\ backend = <<>>
    /\ load_task = 0
    /\ sent_log = <<>>
    /\ taken = 0

IdleSync ==
    /\ pending = {}
    /\ loading = {}
    /\ sync_state = <<>>
    /\ sync_task = <<>>
    /\ sync_chan = <<>>
    /\ processed = <<>>
    /\ set_sent = <<>>

IdleLate == IdleEntry /\ IdleDual /\ IdleBridge /\ IdleSync

IdleFn ==
    /\ fin = [fn |-> None]
    /\ allowed = "none"
    /\ expanded = [st |-> "none", val |-> <<>>]
    /\ dirname = [st |-> "none", variant |-> <<>>, of_list |-> None,
                  of_variant |-> None]
    /\ command = [st |-> "none", args |-> <<>>]

InitMeta ==
    /\ item \in Items
    /\ state = Unloaded
    /\ lock = None
    /\ tasks = <<>>
    /\ cache_file \in Docs \cup {None}
    /\ cpc = [c \in Callers |-> "idle"]
    /\ ret = [c \in Callers |-> NoRet]
    /\ msgs = <<>>
    /\ IdleProv /\ IdleSem /\ IdleFn /\ IdleRt /\ IdleLaunch
    /\ IdleTracker /\ IdleLate

IdleMeta ==
    /\ item = [kind |-> "version_manifest", data_hash |-> None]
    /\ state = Unloaded
    /\ lock = None
    /\ tasks = <<>>
    /\ cache_file = None
    /\ cpc = [c \in Callers |-> "idle"]
    /\ ret = [c \in Callers |-> NoRet]
    /\ msgs = <<>>

NextMeta ==
    \/ \E c \in Callers : Load(c)
    \/ \E c \in Callers : ForceReload(c)
    \/ \E c \in Callers : Fetch(c)
    \/ \E c \in Callers : FetchJoin(c)
    \/ \E t \in 1..Len(tasks) : TaskReadCache(t)
    \/ \E t \in 1..Len(tasks) : TaskSend(t)
    \/ \E t \in 1..Len(tasks) : TaskRecv(t)
    \/ \E t \in 1..Len(tasks) : TaskWrite(t)

SpecMeta == InitMeta /\ [][NextMeta]_vars

(***************************************************************************)
(* One provisioning call: do_java_runtime_load or do_asset_objects_load.   *)
(* The call builds one future per file and polls them all in its own task  *)
(* by try_join_all.  A download task is, for both functions,               *)
(*   read -> notify -> done                     (local file has the hash)  *)
(*   read -> acquire -> net [-> decompress] -> write -> writing            *)
(*        -> notify -> done                                                *)
(* tokio::fs::write runs std::fs::write on the blocking pool: the file is  *)
(* truncated, then filled; once submitted it runs to its end even if the   *)
(* future that awaits it is dropped (orphan_write, orphan_writing).        *)
(***************************************************************************)
DownloadPermits == 8
NFiles == 3

\* size: u32, total_size: u32, AtomicU32 count / total.  Sizes are counted
\* here in units of 2^30 bytes (the files wanted are of 1 and 2 units): a
\* u32 holds 0..3 units, and the sums of such sizes are sums modulo 4 units
\* (fetch_add wraps; `+=` wraps, or panics where overflow checks are on).
U32 == 4

\* Payloads: b1, b2 are the files wanted; x1 has b1's size and another
\* hash (and is an LZMA stream of b1); z2 and zy are LZMA streams of b2
\* and of y2, which has b2's size and another hash.
Blobs == {"b1", "b2", "x1", "z2", "zy"}

BlobLen(b) == CASE b \in {"b2", "y2"} -> 2
                [] b = "partial" -> 0
                [] OTHER -> 1

\* lzma::decompress
Unlzma(b) == CASE b = "z2" -> "b2" [] b = "zy" -> "y2" [] b = "x1" -> "b1"
               [] OTHER -> "LzmaErr"

\* The File entries a manifest / an asset index may list: raw sha1 and
\* size, the size of the lzma download (0: none), the executable flag.
\* The third declares a size its hash does not have; the fourth a hash
\* that is not hex.
JavaEntries ==
    {[sha1 |-> "5a01", size |-> 1, lzma |-> 0, executable |-> TRUE],
     [sha1 |-> "5b02", size |-> 2, lzma |-> 1, executable |-> FALSE],
     [sha1 |-> "5a01", size |-> 2, lzma |-> 0, executable |-> FALSE],
     [sha1 |-> "xyz", size |-> 1, lzma |-> 0, executable |-> FALSE]}

AssetEntries == {[sha1 |-> e.sha1, size |-> e.size, lzma |-> 0,
                  executable |-> FALSE] : e \in JavaEntries}

\* runtime.files keys (distinct paths)
JavaPath(i) == CASE i = 1 -> "lib/a" [] i = 2 -> "bin/java"
                 [] i = 3 -> "lib/b" [] OTHER -> "lib/c"

\* assets_objects_dir.join(&asset.hash[..2]).join(&asset.hash)
ObjPath(hash) == "objects/" \o hash

PathOf(i) == IF kind = "java" THEN JavaPath(i) ELSE ObjPath(dl[i].sha1)

Files == 1..Len(dl)

LocalHit_Never(t, file) == FALSE
\* if let Ok(file) = read(&path) { if expected_hash == *actual_hash {..} }
LocalHit(t, file) == file # None /\ Sha1(file) = HexDecode(t.sha1)

TransferSize_Raw(t) == t.size
\* (lzma, size, download) = ..: the size the transfer must have
TransferSize(t) == IF t.lzma # 0 THEN t.lzma ELSE t.size

CountedSize_Transfer(t) == IF t.lzma # 0 THEN t.lzma ELSE t.size
\* add_count(downloads.raw.size) / add_count(asset.size)
CountedSize(t) == t.size

PayloadError_NoHash(t, bytes) ==
    IF BlobLen(bytes) # t.size THEN "WrongRawSize" ELSE "ok"
\* the checks of the final (raw or decompressed) bytes before the write
PayloadError(t, bytes) ==
    IF BlobLen(bytes) # t.size THEN "WrongRawSize"
    ELSE IF HexDecode(t.sha1) # Sha1(bytes) THEN "WrongHash"
    ELSE "ok"

CanAcquire_Always(p) == TRUE
\* download_semaphore.acquire().await
CanAcquire(p) == p > 0

\* What dropping a task's future leaves of it
Dropped(p) == CASE p \in {"done", "failed"} -> p
                [] p = "write" -> "orphan_write"
                [] p = "writing" -> "orphan_writing"
                [] p \in {"orphan_write", "orphan_writing"} -> p
                [] OTHER -> "dropped"

TaskFail_Swallow(i, e) ==
    /\ call' = call
    /\ tpc' = [tpc EXCEPT ![i] = "failed"]

\* A task returns Err(e): try_join_all returns it at once and drops the
\* other futures
TaskFail(i, e) ==
    /\ call' = [st |-> "err", err |-> e, by |-> i]
    /\ tpc' = [j \in DOMAIN tpc |-> IF j = i THEN "failed" ELSE Dropped(tpc[j])]

DownloadingTitle == IF kind = "java" THEN "Downloading Java Runtime"
                    ELSE "Downloading game assets"

RECURSIVE SumSizes(_)
SumSizes(n) == IF n = 0 THEN 0 ELSE SumSizes(n - 1) + dl[n].size

\* the sizes added before the loop reaches an entry whose hash is not hex,
\* at most (the entries of a map come in any order)
RECURSIVE SumDecoded(_)
SumDecoded(n) ==
    IF n = 0 THEN 0
    ELSE SumDecoded(n - 1)
         + (IF HexDecode(dl[n].sha1) = None THEN 0 ELSE dl[n].size)

VerifyingTitle == IF kind = "java" THEN "Verifying integrity of Java Runtime"
                  ELSE "Verifying integrity of game assets"

\* let fresh_install = !runtime_component_dir.exists()
FreshInstall(exists) == ~exists

\* The caller up to do_*_load.  load_mojang_java_binary: create_dir_all (it
\* may fail), canonicalize (Err if the directory is not there), exists(),
\* the two metadata fetches, the tracker with its first title.
\* load_assets: the index fetch (todo!() on Err), the tracker.
CallEnter ==
    /\ call.st = "new"
    /\ \E made, fetched \in BOOLEAN :
         LET exists == dir_exists \/ (kind = "java" /\ made)
             fresh_install == IF kind = "java" THEN FreshInstall(exists)
                              ELSE FALSE
             first == IF fresh_install THEN DownloadingTitle
                      ELSE VerifyingTitle
         IN IF ~exists
            THEN /\ call' = [st |-> "err", err |-> "InvalidComponentPath",
                             by |-> 0]
                 /\ UNCHANGED <<dir_exists, title, started_downloading, hist>>
            ELSE /\ dir_exists' = exists
                 /\ IF fetched
                    THEN /\ call' = [st |-> "idle", err |-> None, by |-> 0]
                         /\ title' = first
                         /\ started_downloading' = fresh_install
                         /\ hist' = [hist EXCEPT !.initial_title = first]
                    ELSE /\ call' = IF kind = "java"
                                    THEN [st |-> "err", err |-> "MetaLoadError",
                                          by |-> 0]
                                    ELSE [st |-> "panic", err |-> None,
                                          by |-> 0]
                         /\ UNCHANGED <<title, started_downloading, hist>>
    /\ UNCHANGED <<kind, dl, disk, tpc, got, permits, count, total,
                   refreshes, sent>>
    /\ UNCHANGED <<metaVars, semVars, fnVars, rtVars, launchVars, trackerVars,
                   lateVars>>

\* The same call is made again (another StartInstance, with its own
\* trackers), once the writes that the last call handed to the blocking
\* pool have ended; the disk is as the last call left it.
Rerun ==
    /\ call.st \in {"ok", "err"} /\ hist.run = 1
    /\ \A i \in DOMAIN tpc : tpc[i] \notin {"orphan_write", "orphan_writing"}
    /\ hist' = [existed |-> dir_exists, initial_title |-> None, run |-> 2,
                prev |-> call.st, start |-> disk]
    /\ call' = [st |-> "new", err |-> None, by |-> 0]
    /\ tpc' = [i \in 1..Len(dl) |-> "new"]
    /\ got' = [i \in 1..Len(dl) |-> None]
    /\ sent' = [i \in 1..Len(dl) |-> 0]
    /\ permits' = DownloadPermits
    /\ started_downloading' = FALSE
    /\ count' = 0
    /\ total' = 0
    /\ title' = None
    /\ refreshes' = 0
    /\ UNCHANGED <<kind, dl, disk, dir_exists>>
    /\ UNCHANGED <<metaVars, semVars, fnVars, rtVars, launchVars, trackerVars,
                   lateVars>>

\* The body of the function up to try_join_all: decode every hash, sum
\* total_size (u32: the sum wraps, or the addition panics where overflow
\* checks are on), set_total, notify
CallStart ==
    /\ call.st = "idle"
    /\ \E overflow_checks, bad_first \in BOOLEAN :
         IF overflow_checks /\ SumDecoded(Len(dl)) >= U32
            /\ ~(bad_first /\ \E i \in Files : HexDecode(dl[i].sha1) = None)
         THEN /\ call' = [st |-> "panic", err |-> None, by |-> 0]
              /\ UNCHANGED <<total, refreshes, tpc>>
         ELSE IF \E i \in Files : HexDecode(dl[i].sha1) = None
         THEN /\ call' = [st |-> "err", err |-> "InvalidHash", by |-> 0]
              /\ UNCHANGED <<total, refreshes, tpc>>
         ELSE /\ total' = SumSizes(Len(dl)) % U32
              /\ refreshes' = refreshes + 1
              /\ tpc' = [i \in Files |-> "read"]
              /\ call' = [st |-> "join", err |-> None, by |-> 0]
    /\ UNCHANGED <<kind, dl, disk, got, permits, started_downloading,
                   count, title>>
    /\ UNCHANGED <<dir_exists, sent, hist>>
    /\ UNCHANGED <<metaVars, semVars, fnVars, rtVars, launchVars, trackerVars,
                   lateVars>>

\* tokio::fs::read(&path) done: the local hash check
DlLocalCheck(i) ==
    /\ call.st = "join" /\ tpc[i] = "read"
    /\ IF LocalHit(dl[i], disk[PathOf(i)])
       THEN /\ count' = (count + CountedSize(dl[i])) % U32
            /\ tpc' = [tpc EXCEPT ![i] = "notify"]
            /\ UNCHANGED <<started_downloading, title>>
       ELSE /\ started_downloading' = TRUE
            /\ title' = IF started_downloading THEN title ELSE DownloadingTitle
            /\ tpc' = [tpc EXCEPT ![i] = "acquire"]
            /\ UNCHANGED count
    /\ UNCHANGED <<kind, dl, disk, got, permits, total, refreshes, call>>
    /\ UNCHANGED <<dir_exists, sent, hist>>
    /\ UNCHANGED <<metaVars, semVars, fnVars, rtVars, launchVars, trackerVars,
                   lateVars>>

\* the permit is granted and the request is sent
DlAcquire(i) ==
    /\ call.st = "join" /\ tpc[i] = "acquire"
    /\ CanAcquire(permits)
    /\ permits' = permits - 1
    /\ tpc' = [tpc EXCEPT ![i] = "net"]
    /\ UNCHANGED <<kind, dl, disk, got, started_downloading, count, total,
                   title, refreshes, call>>
    /\ sent' = [sent EXCEPT ![i] = sent[i] + 1]
    /\ UNCHANGED <<dir_exists, hist>>
    /\ UNCHANGED <<metaVars, semVars, fnVars, rtVars, launchVars, trackerVars,
                   lateVars>>

\* send()/bytes() end in an error or in the full body; the permit is
\* dropped; the transfer size is checked; raw bytes are checked
DlTransferDone(i) ==
    /\ call.st = "join" /\ tpc[i] = "net"
    /\ permits' = permits + 1
    /\ \E r \in Blobs \cup {"NetErr"} :
         IF r = "NetErr" THEN TaskFail(i, "Reqwest") /\ UNCHANGED got
         ELSE IF BlobLen(r) # TransferSize(dl[i])
         THEN /\ TaskFail(i, "WrongResponseSize")
              /\ got' = [got EXCEPT ![i] = r]
         ELSE IF dl[i].lzma # 0
         THEN /\ tpc' = [tpc EXCEPT ![i] = "decompress"]
              /\ got' = [got EXCEPT ![i] = r]
              /\ UNCHANGED call
         ELSE IF PayloadError(dl[i], r) # "ok"
         THEN /\ TaskFail(i, PayloadError(dl[i], r))
              /\ got' = [got EXCEPT ![i] = r]
         ELSE /\ tpc' = [tpc EXCEPT ![i] = "write"]
              /\ got' = [got EXCEPT ![i] = r]
              /\ UNCHANGED call
    /\ UNCHANGED <<kind, dl, disk, started_downloading, count, total, title,
                   refreshes>>
    /\ UNCHANGED <<dir_exists, sent, hist>>
    /\ UNCHANGED <<metaVars, semVars, fnVars, rtVars, launchVars, trackerVars,
                   lateVars>>

\* spawn_blocking(lzma::decompress) done; the decompressed bytes are checked
DlDecompressed(i) ==
    /\ call.st = "join" /\ tpc[i] = "decompress"
    /\ LET d == Unlzma(got[i]) IN
         IF d = "LzmaErr" THEN TaskFail(i, "Lzma") /\ UNCHANGED got
         ELSE IF PayloadError(dl[i], d) # "ok"
         THEN TaskFail(i, PayloadError(dl[i], d)) /\ UNCHANGED got
         ELSE /\ tpc' = [tpc EXCEPT ![i] = "write"]
              /\ got' = [got EXCEPT ![i] = d]
              /\ UNCHANGED call
    /\ UNCHANGED <<kind, dl, disk, permits, started_downloading, count,
                   total, title, refreshes>>
    /\ UNCHANGED <<dir_exists, sent, hist>>
    /\ UNCHANGED <<metaVars, semVars, fnVars, rtVars, launchVars, trackerVars,
                   lateVars>>

\* std::fs::write opens the destination: it is created or truncated
DlWriteBegin(i) ==
    /\ tpc[i] \in {"write", "orphan_write"}
    /\ disk' = [disk EXCEPT ![PathOf(i)] = "partial"]
    /\ tpc' = [tpc EXCEPT ![i] = IF tpc[i] = "write" THEN "writing"
                                 ELSE "orphan_writing"]
    /\ UNCHANGED <<kind, dl, got, permits, started_downloading, count,
                   total, title, refreshes, call>>
    /\ UNCHANGED <<dir_exists, sent, hist>>
    /\ UNCHANGED <<metaVars, semVars, fnVars, rtVars, launchVars, trackerVars,
                   lateVars>>

\* std::fs::write ends: all bytes are in the file, or an I/O error; the
\* awaiting task (if not dropped) sets the mode and adds its size
DlWriteEnd(i) ==
    /\ tpc[i] \in {"writing", "orphan_writing"}
    /\ \E written \in BOOLEAN :
         /\ disk' = IF written THEN [disk EXCEPT ![PathOf(i)] = got[i]]
                    ELSE disk
         /\ IF tpc[i] = "orphan_writing"
            THEN /\ tpc' = [tpc EXCEPT ![i] = "dropped"]
                 /\ UNCHANGED <<count, call>>
            ELSE IF written
            THEN /\ count' = (count + CountedSize(dl[i])) % U32
                 /\ tpc' = [tpc EXCEPT ![i] = "notify"]
                 /\ UNCHANGED call
            ELSE TaskFail(i, "IoError") /\ UNCHANGED count
    /\ UNCHANGED <<kind, dl, got, permits, started_downloading, total,
                   title, refreshes>>
    /\ UNCHANGED <<dir_exists, sent, hist>>
    /\ UNCHANGED <<metaVars, semVars, fnVars, rtVars, launchVars, trackerVars,
                   lateVars>>

\* tracker.notify().await done: the task returns Ok(())
DlNotified(i) ==
    /\ call.st = "join" /\ tpc[i] = "notify"
    /\ refreshes' = refreshes + 1
    /\ tpc' = [tpc EXCEPT ![i] = "done"]
    /\ UNCHANGED <<kind, dl, disk, got, permits, started_downloading, count,
                   total, title, call>>
    /\ UNCHANGED <<dir_exists, sent, hist>>
    /\ UNCHANGED <<metaVars, semVars, fnVars, rtVars, launchVars, trackerVars,
                   lateVars>>

\* bin/java, bin/javaw.exe, jre.bundle/.., MinecraftJava.exe: the first
\* that canonicalizes
JavaBinaries == <<"bin/java", "bin/javaw.exe",
                  "jre.bundle/Contents/Home/bin/java", "MinecraftJava.exe">>

FoundBinary ==
    \E k \in 1..Len(JavaBinaries) :
        JavaBinaries[k] \in DOMAIN disk /\ disk[JavaBinaries[k]] # None

\* try_join_all returned Ok: (links,) the binary lookup, the result
CallFinish ==
    /\ call.st = "join"
    /\ \A i \in Files : tpc[i] = "done"
    /\ call' = IF kind = "java" /\ ~FoundBinary
               THEN [st |-> "err", err |-> "UnableToFindBinary", by |-> 0]
               ELSE [st |-> "ok", err |-> None, by |-> 0]
    /\ UNCHANGED <<kind, dl, disk, tpc, got, permits, started_downloading,
                   count, total, title, refreshes>>
    /\ UNCHANGED <<dir_exists, sent, hist>>
    /\ UNCHANGED <<metaVars, semVars, fnVars, rtVars, launchVars, trackerVars,
                   lateVars>>

\* The paths the call may touch and the files found there before it
PathsOf(k, files) ==
    IF k = "java" THEN {JavaPath(i) : i \in 1..Len(files)}
    ELSE {ObjPath(files[i].sha1) : i \in 1..Len(files)}

\* The futures of one call are polled together, so the order of the
\* entries in the list has no effect: lists are taken in one order only.
EntryRank(e) == CASE e.sha1 = "5a01" /\ e.size = 1 -> 1
                  [] e.sha1 = "5b02" -> 2
                  [] e.sha1 = "5a01" -> 3
                  [] OTHER -> 4

FileLists(k) ==
    UNION {{f \in [1..n -> IF k = "java" THEN JavaEntries ELSE AssetEntries] :
              \A i, j \in 1..n : i < j => EntryRank(f[i]) <= EntryRank(f[j])}
           : n \in 1..NFiles}

InitProv ==
    /\ kind \in {"java", "assets"}
    /\ dl \in FileLists(kind)
    /\ disk \in [PathsOf(kind, dl) -> {None, "b1"}]
    /\ dir_exists \in BOOLEAN
    /\ ~dir_exists => (kind = "java" /\ \A p \in DOMAIN disk : disk[p] = None)
    /\ sent = [i \in 1..Len(dl) |-> 0]
    /\ hist = [existed |-> dir_exists, initial_title |-> None, run |-> 1,
               prev |-> None, start |-> disk]
    /\ tpc = [i \in 1..Len(dl) |-> "new"]
    /\ got = [i \in 1..Len(dl) |-> None]
    /\ permits = DownloadPermits
    /\ started_downloading = FALSE
    /\ count = 0
    /\ total = 0
    /\ title = None
    /\ refreshes = 0
    /\ call = [st |-> "new", err |-> None, by |-> 0]
    /\ IdleMeta /\ IdleSem /\ IdleFn /\ IdleRt /\ IdleLaunch
    /\ IdleTracker /\ IdleLate

NextProv ==
    \/ CallEnter
    \/ CallStart
    \/ \E i \in Files : DlLocalCheck(i)
    \/ \E i \in Files : DlAcquire(i)
    \/ \E i \in Files : DlTransferDone(i)
    \/ \E i \in Files : DlDecompressed(i)
    \/ \E i \in Files : DlWriteBegin(i)
    \/ \E i \in Files : DlWriteEnd(i)
    \/ \E i \in Files : DlNotified(i)
    \/ CallFinish

SpecProv == InitProv /\ [][NextProv]_vars

\* The call and its re-run, for lists of up to MaxRerunFiles files
MaxRerunFiles == 2

InitRerun == InitProv /\ Len(dl) <= MaxRerunFiles

NextRerun ==
    \/ CallEnter
    \/ CallStart
    \/ \E i \in Files : DlLocalCheck(i)
    \/ \E i \in Files : DlAcquire(i)
    \/ \E i \in Files : DlTransferDone(i)
    \/ \E i \in Files : DlDecompressed(i)
    \/ \E i \in Files : DlWriteBegin(i)
    \/ \E i \in Files : DlWriteEnd(i)
    \/ \E i \in Files : DlNotified(i)
    \/ CallFinish
    \/ Rerun

SpecRerun == InitRerun /\ [][NextRerun]_vars

(***************************************************************************)
(* The same call with its tasks counted by position instead of named: the  *)
(* tasks of one call share one semaphore and differ only in their data, so *)
(* for the permits it is enough to know how many tasks are where.          *)
(*   read: before the local check      acquire: waiting for a permit       *)
(*   net: request sent, body not yet received (the permit is held)         *)
(*   after: checking / decompressing / writing / notifying                 *)
(***************************************************************************)
NSemTasks == 10

SemMove(from, to) ==
    [sem EXCEPT ![from] = sem[from] - 1, ![to] = sem[to] + 1]

\* the local file has the expected hash: add_count, notify, Ok(())
SemLocalHit ==
    /\ sem.st = "join" /\ sem.read > 0
    /\ sem' = SemMove("read", "done")
    /\ UNCHANGED <<metaVars, provVars, fnVars, rtVars, launchVars, trackerVars,
                   lateVars>>

\* no such file: the task goes on to download_semaphore.acquire()
SemLocalMiss ==
    /\ sem.st = "join" /\ sem.read > 0
    /\ sem' = SemMove("read", "acquire")
    /\ UNCHANGED <<metaVars, provVars, fnVars, rtVars, launchVars, trackerVars,
                   lateVars>>

\* let permit = download_semaphore.acquire().await.unwrap(); get(url).send()
SemAcquire ==
    /\ sem.st = "join" /\ sem.acquire > 0
    /\ CanAcquire(sem.permits)
    /\ sem' = [SemMove("acquire", "net") EXCEPT !.permits = sem.permits - 1]
    /\ UNCHANGED <<metaVars, provVars, fnVars, rtVars, launchVars, trackerVars,
                   lateVars>>

\* response.bytes() returned the body; drop(permit)
SemTransferOk ==
    /\ sem.st = "join" /\ sem.net > 0
    /\ sem' = [SemMove("net", "after") EXCEPT !.permits = sem.permits + 1]
    /\ UNCHANGED <<metaVars, provVars, fnVars, rtVars, launchVars, trackerVars,
                   lateVars>>

\* send()/bytes() failed: the task returns Err, try_join_all drops the
\* other futures and with them their requests and permits
SemTransferErr ==
    /\ sem.st = "join" /\ sem.net > 0
    /\ sem' = [sem EXCEPT !.st = "err", !.net = 0,
                          !.permits = sem.permits + sem.net]
    /\ UNCHANGED <<metaVars, provVars, fnVars, rtVars, launchVars, trackerVars,
                   lateVars>>

\* the payload passed the checks and was written: add_count, notify, Ok(())
SemAfterOk ==
    /\ sem.st = "join" /\ sem.after > 0
    /\ sem' = SemMove("after", "done")
    /\ UNCHANGED <<metaVars, provVars, fnVars, rtVars, launchVars, trackerVars,
                   lateVars>>

\* a size or hash check, the decompression or the write failed
SemAfterErr ==
    /\ sem.st = "join" /\ sem.after > 0
    /\ sem' = [sem EXCEPT !.st = "err", !.net = 0,
                          !.permits = sem.permits + sem.net]
    /\ UNCHANGED <<metaVars, provVars, fnVars, rtVars, launchVars, trackerVars,
                   lateVars>>

\* try_join_all returned Ok
SemFinish ==
    /\ sem.st = "join"
    /\ sem.read = 0 /\ sem.acquire = 0 /\ sem.net = 0 /\ sem.after = 0
    /\ sem' = [sem EXCEPT !.st = "ok"]
    /\ UNCHANGED <<metaVars, provVars, fnVars, rtVars, launchVars, trackerVars,
                   lateVars>>

InitSem ==
    /\ \E n \in 1..NSemTasks :
         sem = [read |-> n, acquire |-> 0, net |-> 0, after |-> 0,
                done |-> 0, permits |-> DownloadPermits, st |-> "join"]
    /\ IdleMeta /\ IdleProv /\ IdleFn /\ IdleRt /\ IdleLaunch
    /\ IdleTracker /\ IdleLate

NextSem ==
    \/ SemLocalHit
    \/ SemLocalMiss
    \/ SemAcquire
    \/ SemTransferOk
    \/ SemTransferErr
    \/ SemAfterOk
    \/ SemAfterErr
    \/ SemFinish

SpecSem == InitSem /\ [][NextSem]_vars

(***************************************************************************)
(* The pure functions of launch.rs: LaunchContext::check_rules and         *)
(* check_rule, LaunchContext::expand_argument, calculate_natives_dirname.  *)
(* Each is an operator that computes what the code computes; a call is an  *)
(* action that applies it to the arguments in fin.                         *)
(***************************************************************************)
MaxRules == 2
MaxTemplate == 4
MaxLibs == 2

\* ---- check_rules / check_rule ----

\* The LaunchContext and the host: std::env::consts::{OS, ARCH}, the
\* os_info version string
Contexts ==
    {[os |-> o, arch |-> "x86_64", os_version |-> "10.0",
      is_demo_user |-> d, custom_resolution |-> FALSE, quick_play |-> None]
       : o \in {"linux", "windows"}, d \in BOOLEAN}

\* Option<RuleFeatures> (the flags that are true) and Option<RuleOs>
NoFeatures == [some |-> FALSE, flags |-> {}]
Features(flags) == [some |-> TRUE, flags |-> flags]
NoOs == [some |-> FALSE, name |-> None, arch |-> None, version |-> None]
Os(name, arch, version) ==
    [some |-> TRUE, name |-> name, arch |-> arch, version |-> version]

Predicates ==
    {[features |-> Features({"is_demo_user"}), os |-> NoOs],
     [features |-> Features({"has_quick_plays_support"}), os |-> NoOs],
     [features |-> NoFeatures, os |-> Os("linux", None, None)],
     [features |-> NoFeatures, os |-> Os(None, "x86", None)],
     [features |-> NoFeatures, os |-> Os("windows", None, "^10\\.")],
     [features |-> NoFeatures, os |-> NoOs]}

Rules == {[action |-> a, features |-> p.features, os |-> p.os]
            : a \in {"Allow", "Disallow"}, p \in Predicates}

\* Regex::new(version).is_ok() and regex.is_match(os_version)
RegexIsValid(version) == version # "("

RegexIsMatch(version, os_version) ==
    version = "^10\\." /\ os_version \in {"10.0", "10.15"}

\* the feature branch of check_rule: the first flag set, in the code's order
FeatureMatches(ctx, flags) ==
    IF "is_demo_user" \in flags THEN ctx.is_demo_user
    ELSE IF "has_custom_resolution" \in flags THEN ctx.custom_resolution
    ELSE IF "has_quick_plays_support" \in flags THEN TRUE
    ELSE IF "is_quick_play_singleplayer" \in flags
    THEN ctx.quick_play = "Singleplayer"
    ELSE IF "is_quick_play_multiplayer" \in flags
    THEN ctx.quick_play = "Multiplayer"
    ELSE IF "is_quick_play_realms" \in flags
    THEN ctx.quick_play = "Realms"
    ELSE FALSE

OsNameMatches(ctx, name) ==
    CASE name = "linux" -> ctx.os = "linux"
      [] name = "osx" -> ctx.os = "macos"
      [] name = "windows" -> ctx.os = "windows"

OsArchMatches(ctx, arch) ==
    CASE arch = "arm64" -> ctx.arch = "aarch64"
      [] arch = "x86" -> ctx.arch = "x86"

\* the os branch of check_rule: every sub-field present must match
OsMatches(ctx, os) ==
    /\ os.name # None => OsNameMatches(ctx, os.name)
    /\ os.arch # None => OsArchMatches(ctx, os.arch)
    /\ (os.version # None /\ RegexIsValid(os.version))
          => RegexIsMatch(os.version, ctx.os_version)

\* check_rule: "true", "false", or "panic" (debug assertions only)
check_rule(ctx, debug, rule) ==
    IF debug /\ rule.features.some = rule.os.some THEN "panic"
    ELSE IF rule.features.some /\ debug
            /\ Cardinality(rule.features.flags) # 1
    THEN "panic"
    ELSE IF rule.features.some /\ rule.features.flags # {}
    THEN IF FeatureMatches(ctx, rule.features.flags) THEN "true" ELSE "false"
    ELSE IF rule.os.some
    THEN IF debug /\ rule.os.name = None /\ rule.os.arch = None THEN "panic"
         ELSE IF OsMatches(ctx, rule.os) THEN "true" ELSE "false"
    ELSE IF debug THEN "panic"
    ELSE "false"

NextAllowed_Sticky(was_allowed, action) ==
    IF was_allowed = "true" THEN "true"
    ELSE IF action = "Allow" THEN "true" ELSE "false"
\* allowed = match rule.action { Allow => true, Disallow => false }
NextAllowed(was_allowed, action) ==
    IF action = "Allow" THEN "true" ELSE "false"

\* the loop of check_rules from rule i on
RECURSIVE RulesLoop(_, _, _, _, _)
RulesLoop(ctx, debug, rules, i, was_allowed) ==
    IF i > Len(rules) THEN was_allowed
    ELSE LET m == check_rule(ctx, debug, rules[i]) IN
         IF m = "panic" THEN "panic"
         ELSE RulesLoop(ctx, debug, rules, i + 1,
                        IF m = "true"
                        THEN NextAllowed(was_allowed, rules[i].action)
                        ELSE was_allowed)

check_rules(ctx, debug, rules) ==
    IF debug /\ rules = <<>> THEN "panic"
    ELSE RulesLoop(ctx, debug, rules, 1, "false")

\* ---- expand_argument ----

\* Characters.  A placeholder name is spelled with one letter: N is
\* natives_directory, L is launcher_name, C is classpath; U is a letter
\* that is no name.  Templates are written with all of them but L.
Chars == {"$", "{", "}", "N", "C", "U"}

\* ArgumentExpansionKey::from_str
from_str(name) ==
    CASE name = <<"N">> -> "NativesDirectory"
      [] name = <<"L">> -> "LauncherName"
      [] name = <<"C">> -> "Classpath"
      [] OTHER -> None

\* resolve_expansion: the natives directory, a fixed text, or todo!()
resolve_expansion(natives_dir, key) ==
    CASE key = "NativesDirectory" -> [todo |-> FALSE, val |-> natives_dir]
      [] key = "LauncherName" -> [todo |-> FALSE, val |-> <<"l", "e">>]
      [] OTHER -> [todo |-> TRUE, val |-> <<>>]

NativesDirs == {<<>>, <<"/", "n">>}

\* remaining.find('}'): the position of the first '}' from i on, 0 if none
RECURSIVE FindClose(_, _)
FindClose(argument, i) ==
    IF i > Len(argument) THEN 0
    ELSE IF argument[i] = "}" THEN i
    ELSE FindClose(argument, i + 1)

Panicked == [st |-> "panic", val |-> <<>>]

\* if !builder.is_empty()
ReturnsOwned(builder) == builder # <<>>

\* the loop of expand_argument from character i on (1-based); copied is
\* copied_to_builder, the number of characters already taken
RECURSIVE ExpandLoop(_, _, _, _, _, _)
ExpandLoop(natives_dir, argument, i, dollar_last, builder, copied) ==
    IF i > Len(argument)
    THEN IF ReturnsOwned(builder)
         THEN [st |-> "ok",
               val |-> builder \o SubSeq(argument, copied + 1, Len(argument))]
         ELSE [st |-> "ok", val |-> argument]
    ELSE IF argument[i] = "$"
    THEN ExpandLoop(natives_dir, argument, i + 1, TRUE, builder, copied)
    ELSE IF dollar_last /\ argument[i] = "{"
    THEN LET end == FindClose(argument, i) IN
         IF end = 0
         THEN ExpandLoop(natives_dir, argument, i + 1, TRUE, builder, copied)
         ELSE LET key == from_str(SubSeq(argument, i + 1, end - 1)) IN
              IF key = None THEN Panicked
              ELSE LET r == resolve_expansion(natives_dir, key) IN
                   IF r.todo THEN Panicked
                   ELSE ExpandLoop(natives_dir, argument, i + 1, TRUE,
                                   builder \o SubSeq(argument, copied + 1, i - 2)
                                           \o r.val,
                                   end)
    ELSE ExpandLoop(natives_dir, argument, i + 1, FALSE, builder, copied)

expand_argument(natives_dir, argument) ==
    ExpandLoop(natives_dir, argument, 1, FALSE, <<>>, 0)

\* ---- calculate_natives_dirname ----

\* A hash is HashBits bits wide (the code's is 20 bytes); a sha1 string is
\* its hex form in either letter case, or is not hex, or has a wrong length.
HashBits == 4

\* hex::decode_to_slice(sha1, &mut hash): Ok with the hash, or Err
decode_to_slice(s) ==
    CASE s \in {"a", "A"} -> [ok |-> TRUE, hash |-> 10]
      [] s = "3" -> [ok |-> TRUE, hash |-> 3]
      [] s = "9" -> [ok |-> TRUE, hash |-> 9]
      [] OTHER -> [ok |-> FALSE, hash |-> 0]

HexDigits == <<"0", "1", "2", "3", "4", "5", "6", "7",
               "8", "9", "a", "b", "c", "d", "e", "f">>

\* hex::encode
encode(h) == HexDigits[h + 1]

RECURSIVE XorBits(_, _, _)
XorBits(a, b, n) ==
    IF n = 0 THEN 0
    ELSE (((a % 2) + (b % 2)) % 2) + 2 * XorBits(a \div 2, b \div 2, n - 1)

\* combined[i] ^= hash[i]
CombineStep(combined, hash) == XorBits(combined, hash, HashBits)

\* GameLibrary.downloads: the artifact's sha1 (or none) and the sha1 of
\* the classifiers' artifacts
Libraries ==
    {[artifact |-> a, classifiers |-> c]
       : a \in {None, "a", "A", "9", "zz"},
         c \in {<<>>, <<"3">>}}

HashSetInsert_Vec(hashes, hash) == Append(hashes, hash)
\* hashes.insert(hash): the set as the list of its elements
HashSetInsert(hashes, hash) ==
    IF \E k \in 1..Len(hashes) : hashes[k] = hash THEN hashes
    ELSE Append(hashes, hash)

\* the sha1 strings the first loop meets, in its order
RECURSIVE Sha1sOf(_)
Sha1sOf(libraries) ==
    IF libraries = <<>> THEN <<>>
    ELSE LET l == Head(libraries) IN
         (IF l.artifact = None THEN <<>> ELSE <<l.artifact>>)
         \o l.classifiers \o Sha1sOf(Tail(libraries))

\* the first loop: decode every sha1, insert those that decode
RECURSIVE CollectHashes(_, _)
CollectHashes(sha1s, hashes) ==
    IF sha1s = <<>> THEN hashes
    ELSE LET r == decode_to_slice(Head(sha1s)) IN
         CollectHashes(Tail(sha1s),
                       IF r.ok THEN HashSetInsert(hashes, r.hash) ELSE hashes)

\* the second loop over the hashes in the order iter
RECURSIVE Combine(_, _, _)
Combine(hashes, iter, k) ==
    IF k = 0 THEN 0
    ELSE CombineStep(Combine(hashes, iter, k - 1), hashes[iter[k]])

\* the orders in which a HashSet of n elements may be iterated
IterOrders(n) == {f \in [1..n -> 1..n] : \A i, j \in 1..n : i # j => f[i] # f[j]}

calculate_natives_dirname(libraries, iter) ==
    LET hashes == CollectHashes(Sha1sOf(libraries), <<>>) IN
    encode(Combine(hashes, iter, Len(hashes)))

\* a permutation of the list, or the list with one entry repeated
Variants(libraries) ==
    LET n == Len(libraries) IN
    {[i \in 1..n |-> libraries[f[i]]] : f \in IterOrders(n)}
    \cup {Append(libraries, libraries[i]) : i \in 1..n}
    \cup {<<libraries[i]>> \o libraries : i \in 1..n}

\* ---- the calls ----

NoArgs == [fn |-> None,
           ctx |-> CHOOSE c \in Contexts : TRUE, debug_assertions |-> FALSE,
           rules |-> <<>>, natives_dir |-> <<>>, argument |-> <<>>,
           libraries |-> <<>>,
           arguments |-> [some |-> FALSE, jvm |-> <<>>, game |-> <<>>]]

CallCheckRules ==
    /\ fin.fn = "check_rules" /\ allowed = "none"
    /\ allowed' = check_rules(fin.ctx, fin.debug_assertions, fin.rules)
    /\ UNCHANGED <<fin, expanded, dirname, command>>
    /\ UNCHANGED <<metaVars, provVars, semVars, rtVars, launchVars, trackerVars,
                   lateVars>>

CallExpandArgument ==
    /\ fin.fn = "expand_argument" /\ expanded.st = "none"
    /\ expanded' = expand_argument(fin.natives_dir, fin.argument)
    /\ UNCHANGED <<fin, allowed, dirname, command>>
    /\ UNCHANGED <<metaVars, provVars, semVars, rtVars, launchVars, trackerVars,
                   lateVars>>

\* hosts (std::env::consts::OS and ARCH, os_info's version) and RuleOs
\* values for a call of check_rule on one rule with an os descriptor
Hosts ==
    {[os |-> o, arch |-> a, os_version |-> v, is_demo_user |-> FALSE,
      custom_resolution |-> FALSE, quick_play |-> None]
       : o \in {"linux", "macos", "windows"},
         a \in {"x86", "x86_64", "aarch64"}, v \in {"10.0", "11.2"}}

OsDescriptors ==
    {Os(n, a, v) : n \in {None, "linux", "osx", "windows"},
                   a \in {None, "arm64", "x86"},
                   v \in {None, "^10\\.", "("}}

CallCheckRule ==
    /\ fin.fn = "check_rule" /\ allowed = "none"
    /\ allowed' = check_rule(fin.ctx, fin.debug_assertions, fin.rules[1])
    /\ UNCHANGED <<fin, expanded, dirname, command>>
    /\ UNCHANGED <<metaVars, provVars, semVars, rtVars, launchVars, trackerVars,
                   lateVars>>

\* ---- build ----
MaxArgs == 3

\* LaunchArgumentValue::Single(string) / Multiple(strings)
Single(string) == [multiple |-> FALSE, strings |-> <<string>>]
Multiple(strings) == [multiple |-> TRUE, strings |-> strings]

\* LaunchArgument::Single(value) / Ruled(LaunchArgumentRuled)
Unruled(value) == [ruled |-> FALSE, rules |-> <<>>, value |-> value]
Ruled(rules, value) == [ruled |-> TRUE, rules |-> rules, value |-> value]

LaunchArguments ==
    {Unruled(Single(<<"a">>)),
     Unruled(Multiple(<<<<"b">>, <<"$", "{", "N", "}">>>>)),
     Unruled(Single(<<"$", "{", "C", "}">>)),
     Ruled(<<[action |-> "Allow", features |-> NoFeatures,
              os |-> Os("linux", None, None)]>>, Single(<<"c">>)),
     Ruled(<<[action |-> "Allow", features |-> Features({"is_demo_user"}),
              os |-> NoOs]>>, Multiple(<<<<"d">>, <<"e">>>>))}

\* add_argument: command.arg(expand_argument(string)) for each string
RECURSIVE StringsLoop(_, _, _, _)
StringsLoop(natives_dir, cmd, strings, i) ==
    IF i > Len(strings) THEN cmd
    ELSE LET e == expand_argument(natives_dir, strings[i]) IN
         IF e.st = "panic" THEN [st |-> "panic", args |-> <<>>]
         ELSE StringsLoop(natives_dir,
                          [cmd EXCEPT !.args = Append(cmd.args, e.val)],
                          strings, i + 1)

add_argument(natives_dir, cmd, value) ==
    StringsLoop(natives_dir, cmd, value.strings, 1)

\* add_arguments: Single(value), or Ruled if self.check_rules(&ruled.rules)
Survives(ruled, allow) == ~ruled \/ allow = "true"

\* add_arguments: the loop over the fragments from i on
RECURSIVE ArgumentsLoop(_, _, _, _, _, _)
ArgumentsLoop(ctx, debug, natives_dir, cmd, arguments, i) ==
    IF cmd.st = "panic" \/ i > Len(arguments) THEN cmd
    ELSE LET a == arguments[i]
             allow == IF a.ruled THEN check_rules(ctx, debug, a.rules)
                      ELSE "true"
         IN IF allow = "panic" THEN [st |-> "panic", args |-> <<>>]
            ELSE ArgumentsLoop(
                    ctx, debug, natives_dir,
                    IF Survives(a.ruled, allow)
                    THEN add_argument(natives_dir, cmd, a.value) ELSE cmd,
                    arguments, i + 1)

add_arguments(ctx, debug, natives_dir, cmd, arguments) ==
    ArgumentsLoop(ctx, debug, natives_dir, cmd, arguments, 1)

build_GameFirst(ctx, debug, natives_dir, arguments) ==
    IF arguments.some
    THEN add_arguments(ctx, debug, natives_dir,
            add_arguments(ctx, debug, natives_dir,
                          [st |-> "ok", args |-> <<>>], arguments.game),
            arguments.jvm)
    ELSE [st |-> "ok", args |-> <<>>]
\* LaunchContext::build: Command::new(java_path), the jvm arguments, then
\* the game arguments
build(ctx, debug, natives_dir, arguments) ==
    IF arguments.some
    THEN add_arguments(ctx, debug, natives_dir,
            add_arguments(ctx, debug, natives_dir,
                          [st |-> "ok", args |-> <<>>], arguments.jvm),
            arguments.game)
    ELSE [st |-> "ok", args |-> <<>>]

CallBuild ==
    /\ fin.fn = "build" /\ command.st = "none"
    /\ command' = build(fin.ctx, fin.debug_assertions, fin.natives_dir,
                        fin.arguments)
    /\ UNCHANGED <<fin, allowed, expanded, dirname>>
    /\ UNCHANGED <<metaVars, provVars, semVars, rtVars, launchVars, trackerVars,
                   lateVars>>

\* two calls: on the list and on a variant of it
CallNativesDirname ==
    /\ fin.fn = "calculate_natives_dirname" /\ dirname.st = "none"
    /\ \E v \in Variants(fin.libraries) \cup {fin.libraries} :
       LET n1 == Len(CollectHashes(Sha1sOf(fin.libraries), <<>>))
           n2 == Len(CollectHashes(Sha1sOf(v), <<>>))
       IN \E it1 \in IterOrders(n1), it2 \in IterOrders(n2) :
            dirname' = [st |-> "ok", variant |-> v,
                        of_list |-> calculate_natives_dirname(fin.libraries, it1),
                        of_variant |-> calculate_natives_dirname(v, it2)]
    /\ UNCHANGED <<fin, allowed, expanded, command>>
    /\ UNCHANGED <<metaVars, provVars, semVars, rtVars, launchVars, trackerVars,
                   lateVars>>

InitFn ==
    /\ \/ \E c \in Contexts, d \in BOOLEAN, n \in 0..MaxRules :
            \E r \in [1..n -> Rules] :
               fin = [NoArgs EXCEPT !.fn = "check_rules", !.ctx = c,
                                    !.debug_assertions = d, !.rules = r]
       \/ \E c \in Hosts, d \in BOOLEAN, os \in OsDescriptors :
            fin = [NoArgs EXCEPT
                      !.fn = "check_rule", !.ctx = c, !.debug_assertions = d,
                      !.rules = <<[action |-> "Allow", features |-> NoFeatures,
                                   os |-> os]>>]
       \/ \E c \in Contexts, d \in BOOLEAN :
            \/ fin = [NoArgs EXCEPT !.fn = "build", !.ctx = c,
                                    !.debug_assertions = d,
                                    !.natives_dir = <<"/", "n">>]
            \/ \E nj \in 0..MaxArgs :
                 \E ng \in 0..(MaxArgs - nj) :
                   \E j \in [1..nj -> LaunchArguments],
                      g \in [1..ng -> LaunchArguments] :
                     fin = [NoArgs EXCEPT
                              !.fn = "build", !.ctx = c,
                              !.debug_assertions = d,
                              !.natives_dir = <<"/", "n">>,
                              !.arguments = [some |-> TRUE, jvm |-> j,
                                             game |-> g]]
       \/ \E nd \in NativesDirs, n \in 0..MaxTemplate :
            \E a \in [1..n -> Chars] :
               fin = [NoArgs EXCEPT !.fn = "expand_argument",
                                    !.natives_dir = nd, !.argument = a]
       \/ \E n \in 0..MaxLibs :
            \E l \in [1..n -> Libraries] :
               fin = [NoArgs EXCEPT !.fn = "calculate_natives_dirname",
                                    !.libraries = l]
    /\ allowed = "none"
    /\ expanded = [st |-> "none", val |-> <<>>]
    /\ dirname = [st |-> "none", variant |-> <<>>, of_list |-> None,
                  of_variant |-> None]
    /\ command = [st |-> "none", args |-> <<>>]
    /\ IdleMeta /\ IdleProv /\ IdleSem /\ IdleRt /\ IdleLaunch
    /\ IdleTracker /\ IdleLate

NextFn ==
    \/ CallCheckRules
    \/ CallExpandArgument
    \/ CallNativesDirname
    \/ CallCheckRule
    \/ CallBuild

SpecFn == InitFn /\ [][NextFn]_vars

(***************************************************************************)
(* do_java_runtime_load seen from the manifest: the loop over              *)
(* runtime.files (path_is_normal, create_dir, one task per File entry,     *)
(* the links map), try_join_all, the symlinks and the binary lookup.       *)
(* What a file task does inside is in the model above; here a task ends by *)
(* having its file in place or by an error.                                *)
(* A path is the sequence of its segments, "/" standing first for the      *)
(* root; a canonical absolute path is the sequence of the names from the   *)
(* root of the filesystem.                                                 *)
(***************************************************************************)
MaxEntries == 3

\* the canonicalized runtime_component_dir
runtime_component_dir == <<"rt">>

\* Path::components(): a leading root or current-dir, parent-dirs, names;
\* a "." that is not leading is dropped; "C:" is a prefix on Windows only
RECURSIVE ComponentsFrom(_, _, _)
ComponentsFrom(is_unix, path, i) ==
    IF i > Len(path) THEN <<>>
    ELSE LET rest == ComponentsFrom(is_unix, path, i + 1) IN
         IF path[i] = "/" /\ i = 1 THEN <<"RootDir">> \o rest
         ELSE IF path[i] = "C:" /\ i = 1 /\ ~is_unix THEN <<"Prefix">> \o rest
         ELSE IF path[i] = "." THEN (IF i = 1 THEN <<"CurDir">> \o rest ELSE rest)
         ELSE IF path[i] = ".." THEN <<"ParentDir">> \o rest
         ELSE <<"Normal">> \o rest

Components(is_unix, path) == ComponentsFrom(is_unix, path, 1)

path_is_normal_ButParent(is_unix, path) ==
    \A k \in 1..Len(Components(is_unix, path)) :
        Components(is_unix, path)[k] \in {"Normal", "ParentDir"}
\* path_is_normal: every component is Normal
path_is_normal(is_unix, path) ==
    \A k \in 1..Len(Components(is_unix, path)) :
        Components(is_unix, path)[k] = "Normal"

is_single_component_path_CountOnly(is_unix, path) ==
    Len(Components(is_unix, path)) = 1
\* is_single_component_path: one component, and it is Normal
is_single_component_path(is_unix, path) ==
    LET components == Components(is_unix, path) IN
    /\ components # <<>> => components[1] = "Normal"
    /\ Len(components) = 1

\* Path::join: an absolute path replaces the base
Join(base, path) ==
    IF path # <<>> /\ path[1] = "/" THEN Tail(path) ELSE base \o path

\* Path::starts_with, by whole components
StartsWith(path, base) ==
    Len(base) <= Len(path) /\ SubSeq(path, 1, Len(base)) = base

\* The entries a manifest may have
ManifestEntries ==
    {[path |-> <<"lib">>, type |-> "directory", target |-> <<>>,
      hash_ok |-> TRUE, size |-> 0],
     [path |-> <<"lib", "a">>, type |-> "file", target |-> <<>>,
      hash_ok |-> TRUE, size |-> 1],
     [path |-> <<"MinecraftJava.exe">>, type |-> "file", target |-> <<>>,
      hash_ok |-> TRUE, size |-> 2],
     [path |-> <<"..", "x">>, type |-> "file", target |-> <<>>,
      hash_ok |-> TRUE, size |-> 4],
     [path |-> <<"/", "etc", "d">>, type |-> "directory", target |-> <<>>,
      hash_ok |-> TRUE, size |-> 0],
     [path |-> <<".", "l">>, type |-> "link", target |-> <<"lib">>,
      hash_ok |-> TRUE, size |-> 0],
     [path |-> <<"lnk">>, type |-> "link",
      target |-> <<"MinecraftJava.exe">>, hash_ok |-> TRUE, size |-> 0],
     [path |-> <<"out">>, type |-> "link", target |-> <<"..", "etc">>,
      hash_ok |-> TRUE, size |-> 0],
     [path |-> <<"abs">>, type |-> "link", target |-> <<"/", "etc">>,
      hash_ok |-> TRUE, size |-> 0],
     [path |-> <<"bad">>, type |-> "file", target |-> <<>>,
      hash_ok |-> FALSE, size |-> 8],
     [path |-> <<"C:">>, type |-> "directory", target |-> <<>>,
      hash_ok |-> TRUE, size |-> 0]}

\* ---- the filesystem: canonical path -> node ----

Dir == [type |-> "dir", target |-> <<>>]
File == [type |-> "file", target |-> <<>>]
Link(target) == [type |-> "link", target |-> target]

NoPath == [ok |-> FALSE, path |-> <<>>]

\* resolve the segments from directory cur on, as the OS does: "." stays,
\* ".." goes to the parent, a symlink is followed
RECURSIVE Walk(_, _, _)
Walk(files, cur, segments) ==
    IF segments = <<>> THEN [ok |-> TRUE, path |-> cur]
    ELSE IF files[cur].type # "dir" THEN NoPath
    ELSE LET s == Head(segments) IN
         IF s = "." THEN Walk(files, cur, Tail(segments))
         ELSE IF s = ".."
         THEN Walk(files, IF cur = <<>> THEN cur ELSE SubSeq(cur, 1, Len(cur) - 1),
                   Tail(segments))
         ELSE LET next == Append(cur, s) IN
              IF next \notin DOMAIN files THEN NoPath
              ELSE IF files[next].type = "link"
              THEN Walk(files, files[next].target, Tail(segments))
              ELSE Walk(files, next, Tail(segments))

\* Path::canonicalize of an absolute path
Canonicalize(files, path) == Walk(files, <<>>, path)

\* where an entry named by an absolute path would be made: in the
\* directory its parent resolves to
Locate(files, path) ==
    IF path = <<>> \/ path[Len(path)] \in {".", ".."} THEN NoPath
    ELSE LET parent == Walk(files, <<>>, SubSeq(path, 1, Len(path) - 1)) IN
         IF ~parent.ok \/ files[parent.path].type # "dir" THEN NoPath
         ELSE [ok |-> TRUE, path |-> Append(parent.path, path[Len(path)])]

\* std::fs::create_dir, std::os::unix::fs::symlink: make a new node, or fail
Make(files, path, node) ==
    LET at == Locate(files, path) IN
    IF at.ok /\ at.path \notin DOMAIN files
    THEN [ok |-> TRUE, files |-> (at.path :> node) @@ files, made |-> {at.path}]
    ELSE [ok |-> FALSE, files |-> files, made |-> {}]

\* tokio::fs::write: create the file, or write over the file that is there
\* (through a symlink, if that is what is there)
WriteFile(files, path) ==
    LET at == Locate(files, path) IN
    IF ~at.ok THEN [ok |-> FALSE, files |-> files, made |-> {}]
    ELSE IF at.path \notin DOMAIN files THEN Make(files, path, File)
    ELSE LET node == files[at.path] IN
         [ok |-> \/ node.type = "file"
                 \/ node.type = "link" /\ files[node.target].type = "file",
          files |-> files, made |-> {}]

\* ---- the call ----

\* the loop over runtime.files from entry i on
RECURSIVE ScanLoop(_, _, _, _)
ScanLoop(is_unix, entries, i, acc) ==
    IF i > Len(entries) THEN acc
    ELSE LET e == entries[i]
             path == Join(runtime_component_dir, e.path)
         IN
         IF ~path_is_normal(is_unix, e.path)
         THEN ScanLoop(is_unix, entries, i + 1, acc)
         ELSE IF e.type = "directory"
         THEN LET r == Make(acc.files, path, Dir) IN
              ScanLoop(is_unix, entries, i + 1,
                       [acc EXCEPT !.files = r.files,
                                   !.made = acc.made \cup r.made])
         ELSE IF e.type = "file"
         THEN IF ~e.hash_ok THEN [acc EXCEPT !.err = "InvalidHash"]
              ELSE ScanLoop(is_unix, entries, i + 1,
                            [acc EXCEPT !.total = acc.total + e.size,
                                        !.tasks = Append(acc.tasks,
                                            [path |-> path, st |-> "run"])])
         ELSE ScanLoop(is_unix, entries, i + 1,
                       [acc EXCEPT !.links = acc.links \cup
                            {[path |-> path, target |-> e.target]}])

\* do_java_runtime_load up to try_join_all
RtScan ==
    /\ rcall.st = "idle"
    /\ LET acc == ScanLoop(unix, manifest, 1,
                           [files |-> fs, made |-> {}, total |-> 0,
                            tasks |-> <<>>, links |-> {}, err |-> None])
       IN /\ fs' = acc.files
          /\ created' = created \cup acc.made
          /\ IF acc.err # None
             THEN /\ rcall' = [st |-> "err", err |-> acc.err]
                  /\ UNCHANGED <<rtasks, rlinks, rtotal>>
             ELSE /\ rcall' = [st |-> "join", err |-> None]
                  /\ rtasks' = acc.tasks
                  /\ rlinks' = acc.links
                  /\ rtotal' = acc.total
    /\ UNCHANGED <<unix, manifest>>
    /\ UNCHANGED <<metaVars, provVars, semVars, fnVars, launchVars, trackerVars,
                   lateVars>>

\* a file task ends: its file is in place, or it returns Err and
\* try_join_all drops the others
RtTask(k) ==
    /\ rcall.st = "join" /\ rtasks[k].st = "run"
    /\ \E transfer_ok \in BOOLEAN :
         LET w == WriteFile(fs, rtasks[k].path) IN
         IF transfer_ok /\ w.ok
         THEN /\ fs' = w.files
              /\ created' = created \cup w.made
              /\ rtasks' = [rtasks EXCEPT ![k].st = "done"]
              /\ UNCHANGED rcall
         ELSE /\ rtasks' = [j \in DOMAIN rtasks |->
                              IF j = k THEN [rtasks[j] EXCEPT !.st = "failed"]
                              ELSE IF rtasks[j].st = "run"
                              THEN [rtasks[j] EXCEPT !.st = "dropped"]
                              ELSE rtasks[j]]
              /\ rcall' = [st |-> "err", err |-> "Task"]
              /\ UNCHANGED <<fs, created>>
    /\ UNCHANGED <<unix, manifest, rlinks, rtotal>>
    /\ UNCHANGED <<metaVars, provVars, semVars, fnVars, launchVars, trackerVars,
                   lateVars>>

InsideRoot_Any(absolute_target) == TRUE
\* absolute_target.starts_with(&runtime_component_dir)
InsideRoot(absolute_target) ==
    StartsWith(absolute_target, runtime_component_dir)

\* after try_join_all returned Ok, on unix: one entry of the links map, in
\* the order the HashMap yields them
RtLink(l) ==
    /\ rcall.st = "join" /\ unix
    /\ \A k \in DOMAIN rtasks : rtasks[k].st = "done"
    /\ l \in rlinks
    /\ rlinks' = rlinks \ {l}
    /\ LET parent == SubSeq(l.path, 1, Len(l.path) - 1)
           absolute_target == Canonicalize(fs, Join(parent, l.target))
           r == Make(fs, l.path, Link(absolute_target.path))
       IN IF absolute_target.ok /\ InsideRoot(absolute_target.path)
          THEN fs' = r.files /\ created' = created \cup r.made
          ELSE UNCHANGED <<fs, created>>
    /\ UNCHANGED <<unix, manifest, rcall, rtasks, rtotal>>
    /\ UNCHANGED <<metaVars, provVars, semVars, fnVars, launchVars, trackerVars,
                   lateVars>>

RtBinaries == <<<<"bin", "java">>, <<"bin", "javaw.exe">>,
                <<"jre.bundle", "Contents", "Home", "bin", "java">>,
                <<"MinecraftJava.exe">>>>

\* the links are done (or the host is not unix): the binary lookup
RtFinish ==
    /\ rcall.st = "join"
    /\ \A k \in DOMAIN rtasks : rtasks[k].st = "done"
    /\ unix => rlinks = {}
    /\ rcall' = IF \E b \in 1..Len(RtBinaries) :
                     Canonicalize(fs, Join(runtime_component_dir,
                                           RtBinaries[b])).ok
                THEN [st |-> "ok", err |-> None]
                ELSE [st |-> "err", err |-> "UnableToFindBinary"]
    /\ UNCHANGED <<unix, manifest, fs, rtasks, rlinks, rtotal, created>>
    /\ UNCHANGED <<metaVars, provVars, semVars, fnVars, launchVars, trackerVars,
                   lateVars>>

\* manifests: up to MaxEntries entries with distinct paths, in any order
Manifests ==
    UNION {{f \in [1..n -> ManifestEntries] :
              \A i, j \in 1..n : i # j => f[i].path # f[j].path}
           : n \in 0..MaxEntries}

InitRt ==
    /\ unix \in BOOLEAN
    /\ manifest \in Manifests
    /\ fs = (<<>> :> Dir) @@ (<<"rt">> :> Dir) @@ (<<"etc">> :> Dir)
    /\ rcall = [st |-> "idle", err |-> None]
    /\ rtasks = <<>>
    /\ rlinks = {}
    /\ rtotal = 0
    /\ created = {}
    /\ IdleMeta /\ IdleProv /\ IdleSem /\ IdleFn /\ IdleLaunch
    /\ IdleTracker /\ IdleLate

NextRt ==
    \/ RtScan
    \/ \E k \in DOMAIN rtasks : RtTask(k)
    \/ \E l \in rlinks : RtLink(l)
    \/ RtFinish

SpecRt == InitRt /\ [][NextRt]_vars

(***************************************************************************)
(* The backend task: BackendState::handle, BackendState::launch and        *)
(* Launcher::launch.  The task receives one message at a time; a launch    *)
(* runs inside it.  todo!(), panic!() and unwrap() on Err end the task.    *)
(* The results of the metadata fetches and of the two provisioning calls   *)
(* are inputs here (they are modelled above); of the metadata entries only *)
(* the version manifest's state is kept.                                   *)
(***************************************************************************)
MaxMessages == 3

\* instance names (as paths) and versions; the manifest lists v1
InstanceNames == {<<"inst">>, <<"a", "b">>}
InstanceVersions == {"v1", "v0"}
ManifestVersions == {"v1"}

NoAttempt == [name |-> <<>>, version |-> None, instance |-> "none",
              manifest |-> "none", lookup |-> "none", info |-> "none",
              path |-> "none", java |-> "none", assets |-> "none",
              spawn |-> "none", spawned |-> FALSE]

\* ProgressTracker::new; pushed: it is in progress_trackers.trackers
NoTracker == [count |-> 0, total |-> 0, finished |-> FALSE, error |-> FALSE,
              pushed |-> FALSE]

\* instances.iter().find(|v| v.name == name): the first of that name, or 0
FindInstance(name) ==
    IF \E i \in 1..Len(instances) : instances[i].name = name
    THEN CHOOSE i \in 1..Len(instances) :
           /\ instances[i].name = name
           /\ \A j \in 1..(i - 1) : instances[j].name # name
    ELSE 0

\* MessageToBackend::LoadVersionManifest { reload }: load / force_reload
HandleLoadVersionManifest(reload) ==
    /\ bpc = "recv" /\ handled < MaxMessages
    /\ handled' = handled + 1
    /\ meta_manifest' = IF reload \/ meta_manifest = "Unloaded" THEN "Pending"
                        ELSE meta_manifest
    /\ UNCHANGED <<bpc, instances, attempt, launch_tracker, java_tracker,
                   assets_tracker, spawned>>
    /\ UNCHANGED <<metaVars, provVars, semVars, fnVars, rtVars, trackerVars,
                   lateVars>>

\* MessageToBackend::CreateInstance
HandleCreateInstance(name, version) ==
    /\ bpc = "recv" /\ handled < MaxMessages
    /\ handled' = handled + 1
    /\ instances' = Append(instances, [name |-> name, version |-> version])
    /\ UNCHANGED <<bpc, meta_manifest, attempt, launch_tracker, java_tracker,
                   assets_tracker, spawned>>
    /\ UNCHANGED <<metaVars, provVars, semVars, fnVars, rtVars, trackerVars,
                   lateVars>>

\* MessageToBackend::StartInstance: BackendState::launch finds the
\* instance; Launcher::launch makes the tracker and awaits the manifest
HandleStartInstance(name) ==
    /\ bpc = "recv" /\ handled < MaxMessages
    /\ handled' = handled + 1
    /\ IF FindInstance(name) = 0
       THEN /\ attempt' = [NoAttempt EXCEPT !.name = name, !.instance = "err"]
            /\ bpc' = "panicked"
            /\ UNCHANGED launch_tracker
       ELSE /\ attempt' = [NoAttempt EXCEPT
                              !.name = name, !.instance = "ok",
                              !.version = instances[FindInstance(name)].version]
            /\ launch_tracker' = [NoTracker EXCEPT !.total = 7,
                                                   !.pushed = TRUE]
            /\ bpc' = "fetch_manifest"
    /\ java_tracker' = NoTracker
    /\ assets_tracker' = NoTracker
    /\ UNCHANGED <<instances, meta_manifest, spawned>>
    /\ UNCHANGED <<metaVars, provVars, semVars, fnVars, rtVars, trackerVars,
                   lateVars>>

\* what a fetch of the version manifest may return in a state of its entry
FetchResults(entry) ==
    CASE entry = "Loaded" -> {"ok"}
      [] entry = "Error" -> {"err"}
      [] OTHER -> {"ok", "err"}

\* meta.fetch(&MinecraftVersionManifestMetadata) returned; the version
\* lookup
LaunchManifestFetched ==
    /\ bpc = "fetch_manifest"
    /\ \E r \in FetchResults(meta_manifest) :
         /\ meta_manifest' = IF r = "ok" THEN "Loaded" ELSE "Error"
         /\ IF r = "err"
            THEN /\ attempt' = [attempt EXCEPT !.manifest = "err"]
                 /\ bpc' = "panicked"
                 /\ UNCHANGED launch_tracker
            ELSE /\ launch_tracker' =
                       [launch_tracker EXCEPT !.count = launch_tracker.count + 1]
                 /\ IF attempt.version \in ManifestVersions
                    THEN /\ attempt' = [attempt EXCEPT !.manifest = "ok",
                                                       !.lookup = "ok"]
                         /\ bpc' = "fetch_version"
                    ELSE /\ attempt' = [attempt EXCEPT !.manifest = "ok",
                                                       !.lookup = "err"]
                         /\ bpc' = "panicked"
    /\ UNCHANGED <<instances, handled, java_tracker, assets_tracker, spawned>>
    /\ UNCHANGED <<metaVars, provVars, semVars, fnVars, rtVars, trackerVars,
                   lateVars>>

\* meta.fetch(&MinecraftVersionMetadata(version)) returned; the check of
\* the instance name; the two provisioning futures are made
LaunchVersionFetched ==
    /\ bpc = "fetch_version"
    /\ \E r \in {"ok", "err"} :
         IF r = "err"
         THEN /\ attempt' = [attempt EXCEPT !.info = "err"]
              /\ bpc' = "panicked"
              /\ UNCHANGED launch_tracker
         ELSE /\ launch_tracker' =
                    [launch_tracker EXCEPT !.count = launch_tracker.count + 1]
              /\ IF is_single_component_path(TRUE, attempt.name)
                 THEN /\ attempt' = [attempt EXCEPT !.info = "ok", !.path = "ok",
                                        !.java = "meta", !.assets = "meta"]
                      /\ bpc' = "provision"
                 ELSE /\ attempt' = [attempt EXCEPT !.info = "ok",
                                                    !.path = "err"]
                      /\ bpc' = "panicked"
    /\ UNCHANGED <<instances, handled, meta_manifest, java_tracker,
                   assets_tracker, spawned>>
    /\ UNCHANGED <<metaVars, provVars, semVars, fnVars, rtVars, trackerVars,
                   lateVars>>

\* MessageToBackend::DownloadAllMetadata: download_all_metadata fetches the
\* version manifest, then every version, the runtimes and every runtime
\* component manifest (rest), and panics on the first Err
HandleDownloadAllMetadata ==
    /\ bpc = "recv" /\ handled < MaxMessages
    /\ handled' = handled + 1
    /\ \E r \in FetchResults(meta_manifest), rest \in {"ok", "err"} :
         /\ meta_manifest' = IF r = "ok" THEN "Loaded" ELSE "Error"
         /\ bpc' = IF r = "ok" /\ rest = "ok" THEN "recv" ELSE "panicked"
    /\ UNCHANGED <<instances, attempt, launch_tracker, java_tracker,
                   assets_tracker, spawned>>
    /\ UNCHANGED <<metaVars, provVars, semVars, fnVars, rtVars, trackerVars,
                   lateVars>>

TryJoin_JavaOnly(java, assets) ==
    IF java = "err" THEN "err" ELSE IF java = "ok" THEN "ok" ELSE "pending"
\* futures::future::try_join: Err as soon as one is Err, Ok when both are
TryJoin(java, assets) ==
    IF java = "err" \/ assets = "err" THEN "err"
    ELSE IF java = "ok" /\ assets = "ok" THEN "ok"
    ELSE "pending"

\* `let Ok((java_path, _)) = result else { todo!() }`
AfterProvisionStep(a) ==
    IF TryJoin(a.java, a.assets) = "err" THEN "panicked" ELSE "provision"

\* load_mojang_java_binary up to its tracker: the two metadata fetches
JavaMetaFetched ==
    /\ bpc = "provision" /\ TryJoin(attempt.java, attempt.assets) = "pending"
    /\ attempt.java = "meta"
    /\ \E r \in {"ok", "err"} :
         LET a == [attempt EXCEPT !.java = IF r = "ok" THEN "load" ELSE "err"]
         IN /\ attempt' = a
            /\ java_tracker' = [java_tracker EXCEPT !.pushed = (r = "ok")]
            /\ bpc' = AfterProvisionStep(a)
    /\ UNCHANGED <<instances, handled, meta_manifest, launch_tracker,
                   assets_tracker, spawned>>
    /\ UNCHANGED <<metaVars, provVars, semVars, fnVars, rtVars, trackerVars,
                   lateVars>>

\* do_java_runtime_load returned; set_finished(result.is_err())
JavaLoaded ==
    /\ bpc = "provision" /\ TryJoin(attempt.java, attempt.assets) = "pending"
    /\ attempt.java = "load"
    /\ \E r \in {"ok", "err"} :
         LET a == [attempt EXCEPT !.java = r]
         IN /\ attempt' = a
            /\ java_tracker' = [java_tracker EXCEPT !.finished = TRUE,
                                                    !.error = (r = "err")]
            /\ bpc' = AfterProvisionStep(a)
    /\ UNCHANGED <<instances, handled, meta_manifest, launch_tracker,
                   assets_tracker, spawned>>
    /\ UNCHANGED <<metaVars, provVars, semVars, fnVars, rtVars, trackerVars,
                   lateVars>>

\* load_assets up to its tracker: the asset index fetch (todo!() on Err)
AssetsMetaFetched ==
    /\ bpc = "provision" /\ TryJoin(attempt.java, attempt.assets) = "pending"
    /\ attempt.assets = "meta"
    /\ \E r \in {"ok", "err"} :
         LET a == [attempt EXCEPT !.assets = IF r = "ok" THEN "load" ELSE "err"]
         IN /\ attempt' = a
            /\ assets_tracker' = [assets_tracker EXCEPT !.pushed = (r = "ok")]
            /\ bpc' = AfterProvisionStep(a)
    /\ UNCHANGED <<instances, handled, meta_manifest, launch_tracker,
                   java_tracker, spawned>>
    /\ UNCHANGED <<metaVars, provVars, semVars, fnVars, rtVars, trackerVars,
                   lateVars>>

\* do_asset_objects_load returned; set_finished(result.is_err())
AssetsLoaded ==
    /\ bpc = "provision" /\ TryJoin(attempt.java, attempt.assets) = "pending"
    /\ attempt.assets = "load"
    /\ \E r \in {"ok", "err"} :
         LET a == [attempt EXCEPT !.assets = r]
         IN /\ attempt' = a
            /\ assets_tracker' = [assets_tracker EXCEPT !.finished = TRUE,
                                                        !.error = (r = "err")]
            /\ bpc' = AfterProvisionStep(a)
    /\ UNCHANGED <<instances, handled, meta_manifest, launch_tracker,
                   java_tracker, spawned>>
    /\ UNCHANGED <<metaVars, provVars, semVars, fnVars, rtVars, trackerVars,
                   lateVars>>

\* try_join returned Ok: the natives directory, launch_context.build (it
\* may panic), command.spawn().unwrap(), add_count(1)
LaunchSpawn ==
    /\ bpc = "provision" /\ TryJoin(attempt.java, attempt.assets) = "ok"
    /\ \E r \in {"spawned", "build_panic", "spawn_err"} :
         IF r = "spawned"
         THEN /\ attempt' = [attempt EXCEPT !.spawn = "ok", !.spawned = TRUE]
              /\ spawned' = spawned + 1
              /\ launch_tracker' =
                    [launch_tracker EXCEPT !.count = launch_tracker.count + 1]
              /\ bpc' = "recv"
         ELSE /\ attempt' = [attempt EXCEPT !.spawn = "err"]
              /\ bpc' = "panicked"
              /\ UNCHANGED <<spawned, launch_tracker>>
    /\ UNCHANGED <<instances, handled, meta_manifest, java_tracker,
                   assets_tracker>>
    /\ UNCHANGED <<metaVars, provVars, semVars, fnVars, rtVars, trackerVars,
                   lateVars>>

InitLaunch ==
    /\ bpc = "recv"
    /\ instances = <<>>
    /\ handled = 0
    /\ meta_manifest = "Unloaded"
    /\ attempt = NoAttempt
    /\ launch_tracker = NoTracker
    /\ java_tracker = NoTracker
    /\ assets_tracker = NoTracker
    /\ spawned = 0
    /\ IdleMeta /\ IdleProv /\ IdleSem /\ IdleFn /\ IdleRt
    /\ IdleTracker /\ IdleLate

NextLaunch ==
    \/ \E reload \in BOOLEAN : HandleLoadVersionManifest(reload)
    \/ \E n \in InstanceNames, v \in InstanceVersions : HandleCreateInstance(n, v)
    \/ \E n \in InstanceNames : HandleStartInstance(n)
    \/ HandleDownloadAllMetadata
    \/ LaunchManifestFetched
    \/ LaunchVersionFetched
    \/ JavaMetaFetched
    \/ JavaLoaded
    \/ AssetsMetaFetched
    \/ AssetsLoaded
    \/ LaunchSpawn

SpecLaunch == InitLaunch /\ [][NextLaunch]_vars

(***************************************************************************)
(* ProgressTracker::set_finished (src/src/bridge.rs), called by several    *)
(* threads on clones of one tracker.  The store of finished_with_error,    *)
(* Instant::now() and the compare_exchange on finished_at are three steps  *)
(* of a call.  An Option is a sequence of length 0 or 1.                   *)
(***************************************************************************)
Finishers == {"f1", "f2", "f3"}
MaxClock == 3
MaxCalls == 3

IdleCall == [pc |-> "idle", error |-> FALSE, now |-> 0]

CompareExchange_Store(current, expected, new) == new
\* AtomicOptionInstant::compare_exchange(current, new): the value after it
CompareExchange(current, expected, new) ==
    IF current = expected THEN new ELSE current

\* time passes
Tick ==
    /\ clock < MaxClock
    /\ clock' = clock + 1
    /\ UNCHANGED <<finished_at, finished_with_error, fpc, cas_log>>
    /\ UNCHANGED <<metaVars, provVars, semVars, fnVars, rtVars, launchVars,
                   lateVars>>

\* set_finished(error): if error { finished_with_error.store(true) }
SetFinishedEnter(f, error) ==
    /\ fpc[f].pc = "idle"
    /\ Len(cas_log) + Cardinality({g \in Finishers : fpc[g].pc # "idle"})
          < MaxCalls
    /\ finished_with_error' = (finished_with_error \/ error)
    /\ fpc' = [fpc EXCEPT ![f] = [pc |-> "now", error |-> error, now |-> 0]]
    /\ UNCHANGED <<finished_at, clock, cas_log>>
    /\ UNCHANGED <<metaVars, provVars, semVars, fnVars, rtVars, launchVars,
                   lateVars>>

\* the argument Some(Instant::now()) is evaluated
SetFinishedNow(f) ==
    /\ fpc[f].pc = "now"
    /\ fpc' = [fpc EXCEPT ![f].pc = "cas", ![f].now = clock]
    /\ UNCHANGED <<finished_at, finished_with_error, clock, cas_log>>
    /\ UNCHANGED <<metaVars, provVars, semVars, fnVars, rtVars, launchVars,
                   lateVars>>

\* finished_at.compare_exchange(None, Some(now), SeqCst, Relaxed); return
SetFinishedCas(f) ==
    /\ fpc[f].pc = "cas"
    /\ finished_at' = CompareExchange(finished_at, <<>>, <<fpc[f].now>>)
    /\ cas_log' = Append(cas_log, [by |-> f, now |-> fpc[f].now])
    /\ fpc' = [fpc EXCEPT ![f] = IdleCall]
    /\ UNCHANGED <<finished_with_error, clock>>
    /\ UNCHANGED <<metaVars, provVars, semVars, fnVars, rtVars, launchVars,
                   lateVars>>

\* ProgressTracker::new
InitTracker ==
    /\ finished_at = <<>>
    /\ finished_with_error = FALSE
    /\ clock = 1
    /\ fpc = [f \in Finishers |-> IdleCall]
    /\ cas_log = <<>>
    /\ IdleMeta /\ IdleProv /\ IdleSem /\ IdleFn /\ IdleRt /\ IdleLaunch
    /\ IdleLate

NextTracker ==
    \/ Tick
    \/ \E f \in Finishers, error \in BOOLEAN : SetFinishedEnter(f, error)
    \/ \E f \in Finishers : SetFinishedNow(f)
    \/ \E f \in Finishers : SetFinishedCas(f)

SpecTracker == InitTracker /\ [][NextTracker]_vars

(***************************************************************************)
(* Launcher::load_mojang_java_binary from its start to its tracker: the    *)
(* platform key, the component id, their validation, the directory, the    *)
(* two metadata fetches.                                                   *)
(***************************************************************************)
MaxSegments == 2

\* match (std::env::consts::OS, std::env::consts::ARCH)
Platform(os, arch) ==
    CASE os = "linux" /\ arch = "x86_64" -> "linux"
      [] os = "linux" /\ arch = "x86" -> "linux-i386"
      [] os = "macos" /\ arch = "x86_64" -> "mac-os"
      [] os = "macos" /\ arch = "aarch64" -> "mac-os-arm64"
      [] os = "windows" /\ arch = "aarch64" -> "windows-arm64"
      [] os = "windows" /\ arch = "x86_64" -> "windows-x64"
      [] os = "windows" /\ arch = "x86" -> "windows-x86"
      [] os = "macos" -> "mac-os-" \o arch
      [] OTHER -> os \o "-" \o arch

\* version_info.java_version: None, or a component id, which is any string
\* of the version document: a path of up to MaxSegments segments
ComponentIds ==
    UNION {{c \in [1..n -> {"/", ".", "..", "C:", "a", "b"}] :
              \A i \in 2..n : c[i] \notin {"/", "C:"}} : n \in 0..MaxSegments}

JavaVersions ==
    {[some |-> FALSE, component |-> <<>>]}
    \cup {[some |-> TRUE, component |-> c] : c \in ComponentIds}

\* let jre_component = if let Some(java_version) = .. else "jre-legacy"
JreComponent(java_version) ==
    IF java_version.some THEN java_version.component ELSE <<"jre-legacy">>

\* the two is_single_component_path checks
JbinValidate ==
    /\ jbin.pc = "validate"
    /\ LET is_unix == jbin.os # "windows"
           jre_component == JreComponent(jbin.java_version)
           platform == <<Platform(jbin.os, jbin.arch)>>
       IN IF ~is_single_component_path(is_unix, jre_component)
          THEN jbin' = [jbin EXCEPT !.pc = "done",
                                    !.result = "InvalidComponentPath"]
          ELSE IF ~is_single_component_path(is_unix, platform)
          THEN jbin' = [jbin EXCEPT !.pc = "done",
                                    !.result = "InvalidComponentPath"]
          ELSE jbin' = [jbin EXCEPT !.pc = "mkdir"]
    /\ UNCHANGED <<earlyVars, dualVars, bridgeVars, syncVars>>

\* let _ = std::fs::create_dir_all(&runtime_component_dir)
JbinCreateDir ==
    /\ jbin.pc = "mkdir"
    /\ \E made \in BOOLEAN :
         jbin' = [jbin EXCEPT !.pc = "canonicalize",
                              !.mkdirs = jbin.mkdirs + 1,
                              !.dir = jbin.dir \/ made]
    /\ UNCHANGED <<earlyVars, dualVars, bridgeVars, syncVars>>

\* runtime_component_dir.canonicalize(), exists()
JbinCanonicalize ==
    /\ jbin.pc = "canonicalize"
    /\ jbin' = IF jbin.dir
               THEN [jbin EXCEPT !.pc = "fetch_runtimes",
                                 !.fresh_install = FreshInstall(jbin.dir)]
               ELSE [jbin EXCEPT !.pc = "done",
                                 !.result = "InvalidComponentPath"]
    /\ UNCHANGED <<earlyVars, dualVars, bridgeVars, syncVars>>

\* meta.fetch(&MojangJavaRuntimesMetadata), the platform and the component
\* looked up in it
JbinRuntimesFetched ==
    /\ jbin.pc = "fetch_runtimes"
    /\ \E r \in {"ok", "MetaLoadError", "UnknownPlatform",
                  "UnknownComponentForPlatform"} :
         jbin' = IF r = "ok"
                 THEN [jbin EXCEPT !.pc = "fetch_component",
                                   !.requests = jbin.requests + 1]
                 ELSE [jbin EXCEPT !.pc = "done", !.result = r,
                                   !.requests = jbin.requests + 1]
    /\ UNCHANGED <<earlyVars, dualVars, bridgeVars, syncVars>>

\* meta.fetch(&MojangJavaRuntimeComponentMetadata {..}); the tracker
JbinComponentFetched ==
    /\ jbin.pc = "fetch_component"
    /\ \E r \in {"ok", "MetaLoadError"} :
         jbin' = IF r = "ok"
                 THEN [jbin EXCEPT !.pc = "tracker",
                                   !.requests = jbin.requests + 1]
                 ELSE [jbin EXCEPT !.pc = "done", !.result = r,
                                   !.requests = jbin.requests + 1]
    /\ UNCHANGED <<earlyVars, dualVars, bridgeVars, syncVars>>

InitEntry ==
    /\ jbin \in [java_version : JavaVersions,
                 os : {"linux", "macos", "windows"},
                 arch : {"x86", "x86_64", "aarch64"},
                 dir : BOOLEAN, pc : {"validate"}, mkdirs : {0},
                 requests : {0}, fresh_install : {FALSE}, result : {None}]
    /\ IdleMeta /\ IdleProv /\ IdleSem /\ IdleFn /\ IdleRt /\ IdleLaunch
    /\ IdleTracker /\ IdleDual /\ IdleBridge /\ IdleSync

NextEntry ==
    \/ JbinValidate
    \/ JbinCreateDir
    \/ JbinCanonicalize
    \/ JbinRuntimesFetched
    \/ JbinComponentFetched

SpecEntry == InitEntry /\ [][NextEntry]_vars

(***************************************************************************)
(* The two futures that Launcher::launch joins with try_join:              *)
(* load_mojang_java_binary and load_assets.  Each, after its metadata      *)
(* fetches, runs its loader, which makes its own Semaphore::new(8); the    *)
(* tasks of a phase are counted by position as above (read, acquire, net,  *)
(* done: what a task does after its transfer holds no permit).             *)
(***************************************************************************)
NDualTasks == 9

Phases == {"java", "assets"}

OtherPhase(ph) == IF ph = "java" THEN "assets" ELSE "java"

PermitsOf_Shared(d, ph) == DownloadPermits - d["java"].net - d["assets"].net
\* the free permits of the download_semaphore of the phase's loader
PermitsOf(d, ph) == d[ph].permits

\* a phase returned Err: try_join returns it and drops the other future,
\* with its tasks, their requests and their permits
DualFail(ph) ==
    LET o == OtherPhase(ph) IN
    [dual EXCEPT ![ph].st = "err", ![ph].net = 0,
                 ![ph].permits = dual[ph].permits + dual[ph].net,
                 ![o].st = IF dual[o].st \in {"meta", "join"} THEN "dropped"
                           ELSE dual[o].st,
                 ![o].net = 0,
                 ![o].permits = dual[o].permits + dual[o].net]

DualMove(ph, from, to) ==
    [dual EXCEPT ![ph][from] = dual[ph][from] - 1,
                 ![ph][to] = dual[ph][to] + 1]

\* the metadata of the phase is fetched; do_*_load makes its semaphore and
\* its tasks and awaits try_join_all
DualStart(ph) ==
    /\ dual[ph].st = "meta"
    /\ \E r \in {"ok", "err"} :
         dual' = IF r = "ok"
                 THEN [dual EXCEPT ![ph].st = "join",
                                   ![ph].permits = DownloadPermits,
                                   ![ph].read = dual[ph].tasks]
                 ELSE DualFail(ph)
    /\ UNCHANGED <<earlyVars, entryVars, bridgeVars, syncVars>>

DualLocalHit(ph) ==
    /\ dual[ph].st = "join" /\ dual[ph].read > 0
    /\ dual' = DualMove(ph, "read", "done")
    /\ UNCHANGED <<earlyVars, entryVars, bridgeVars, syncVars>>

DualLocalMiss(ph) ==
    /\ dual[ph].st = "join" /\ dual[ph].read > 0
    /\ dual' = DualMove(ph, "read", "acquire")
    /\ UNCHANGED <<earlyVars, entryVars, bridgeVars, syncVars>>

\* download_semaphore.acquire().await
DualAcquire(ph) ==
    /\ dual[ph].st = "join" /\ dual[ph].acquire > 0
    /\ CanAcquire(PermitsOf(dual, ph))
    /\ dual' = [DualMove(ph, "acquire", "net") EXCEPT
                  ![ph].permits = dual[ph].permits - 1]
    /\ UNCHANGED <<earlyVars, entryVars, bridgeVars, syncVars>>

\* the body is received, drop(permit); the checks and the write succeed
DualTransferOk(ph) ==
    /\ dual[ph].st = "join" /\ dual[ph].net > 0
    /\ dual' = [DualMove(ph, "net", "done") EXCEPT
                  ![ph].permits = dual[ph].permits + 1]
    /\ UNCHANGED <<earlyVars, entryVars, bridgeVars, syncVars>>

\* the transfer, a check or the write fails: the task returns Err,
\* try_join_all returns it
DualTransferErr(ph) ==
    /\ dual[ph].st = "join" /\ dual[ph].net > 0
    /\ dual' = DualFail(ph)
    /\ UNCHANGED <<earlyVars, entryVars, bridgeVars, syncVars>>

\* try_join_all returned Ok
DualFinish(ph) ==
    /\ dual[ph].st = "join"
    /\ dual[ph].read = 0 /\ dual[ph].acquire = 0 /\ dual[ph].net = 0
    /\ dual' = [dual EXCEPT ![ph].st = "ok"]
    /\ UNCHANGED <<earlyVars, entryVars, bridgeVars, syncVars>>

InitDual ==
    /\ dual = [ph \in Phases |->
                 [st |-> "meta", tasks |-> NDualTasks, read |-> 0,
                  acquire |-> 0, net |-> 0, done |-> 0, permits |-> 0]]
    /\ IdleMeta /\ IdleProv /\ IdleSem /\ IdleFn /\ IdleRt /\ IdleLaunch
    /\ IdleTracker /\ IdleEntry /\ IdleBridge /\ IdleSync

NextDual ==
    \/ \E ph \in Phases : DualStart(ph)
    \/ \E ph \in Phases : DualLocalHit(ph)
    \/ \E ph \in Phases : DualLocalMiss(ph)
    \/ \E ph \in Phases : DualAcquire(ph)
    \/ \E ph \in Phases : DualTransferOk(ph)
    \/ \E ph \in Phases : DualTransferErr(ph)
    \/ \E ph \in Phases : DualFinish(ph)

SpecDual == InitDual /\ [][NextDual]_vars

(***************************************************************************)
(* The bridge: backend::start makes two bounded tokio mpsc channels.  The  *)
(* UI thread puts MessageToBackend values into one with blocking_send      *)
(* (BackendHandle::send, called from click handlers) and takes             *)
(* MessageToFrontend values out of the other in a task of its own          *)
(* executor (main.rs); the backend task takes the former in                *)
(* BackendState::handle and, while it handles a message, puts values into  *)
(* the latter with send().await (InstanceAdded, Refresh from notify()), as *)
(* do the load tasks of the MetadataManager (VersionManifestUpdated).      *)
(* Both channels are made with capacity 1024; here they hold               *)
(* ChannelCapacity values.                                                 *)
(***************************************************************************)
ChannelCapacity == 2
MaxSent == 4
MaxNotifies == 3

MessagesToBackend == {"LoadVersionManifest", "CreateInstance", "StartInstance",
                      "DownloadAllMetadata"}

\* the receiver is dropped with the backend task when it panics
Closed == backend.st = "panicked"

\* Sender::blocking_send / send().await return once the value is in the
\* queue, or with Err once the channel is closed
HasRoom(n) == n < ChannelCapacity

CanRecv_Spawned(b) == b.st \in {"recv", "busy"}
\* `while let Some(message) = self.recv.recv().await`: the loop is back at
\* recv only when the handling of the last message has returned
CanRecv(b) == b.st = "recv"

\* BackendHandle::send from a click handler: blocking_send
UiSend(m) ==
    /\ ui.st = "idle" /\ Len(sent_log) < MaxSent
    /\ IF Closed
       THEN UNCHANGED <<to_backend, ui, sent_log>>
       ELSE IF HasRoom(Len(to_backend))
       THEN /\ to_backend' = Append(to_backend, m)
            /\ sent_log' = Append(sent_log, m)
            /\ UNCHANGED ui
       ELSE /\ ui' = [st |-> "blocking_send", msg |-> m]
            /\ UNCHANGED <<to_backend, sent_log>>
    /\ UNCHANGED <<to_frontend, backend, load_task, taken>>
    /\ UNCHANGED <<earlyVars, entryVars, dualVars, syncVars>>

\* the blocked blocking_send returns: there is room, or the channel closed
UiSendReturns ==
    /\ ui.st = "blocking_send"
    /\ IF Closed
       THEN UNCHANGED <<to_backend, sent_log>>
       ELSE /\ HasRoom(Len(to_backend))
            /\ to_backend' = Append(to_backend, ui.msg)
            /\ sent_log' = Append(sent_log, ui.msg)
    /\ ui' = [st |-> "idle", msg |-> None]
    /\ UNCHANGED <<to_frontend, backend, load_task, taken>>
    /\ UNCHANGED <<earlyVars, entryVars, dualVars, syncVars>>

\* main.rs: `while let Some(message) = recv.recv().await` in a task of the
\* UI thread's executor: it runs when the UI thread is not inside a handler
UiRecv ==
    /\ ui.st = "idle" /\ to_frontend > 0
    /\ to_frontend' = to_frontend - 1
    /\ UNCHANGED <<to_backend, ui, backend, load_task, sent_log, taken>>
    /\ UNCHANGED <<earlyVars, entryVars, dualVars, syncVars>>

\* BackendState::handle receives the next message.  LoadVersionManifest
\* returns once the load task is started; CreateInstance sends
\* InstanceAdded; StartInstance runs the launch, which notifies some number
\* of times; DownloadAllMetadata fetches, which may start a load task.
BackendRecv ==
    /\ CanRecv(backend) /\ to_backend # <<>>
    /\ to_backend' = Tail(to_backend)
    /\ taken' = taken + 1
    /\ LET m == Head(to_backend) IN
         CASE m = "LoadVersionManifest" ->
                /\ backend' = [st |-> "recv", msg |-> None, left |-> 0]
                /\ load_task' \in {load_task, 1}
           [] m = "CreateInstance" ->
                /\ backend' = [st |-> "busy", msg |-> m, left |-> 1]
                /\ UNCHANGED load_task
           [] m = "StartInstance" ->
                /\ \E n \in 1..MaxNotifies :
                     backend' = [st |-> "busy", msg |-> m, left |-> n]
                /\ load_task' \in {load_task, 1}
           [] OTHER ->
                /\ backend' = [st |-> "busy", msg |-> m, left |-> 0]
                /\ load_task' \in {load_task, 1}
    /\ UNCHANGED <<to_frontend, ui, sent_log>>
    /\ UNCHANGED <<earlyVars, entryVars, dualVars, syncVars>>

\* self.send.send(..).await / ProgressTracker::notify in the handler
BackendSend ==
    /\ backend.st = "busy" /\ backend.left > 0
    /\ HasRoom(to_frontend)
    /\ to_frontend' = to_frontend + 1
    /\ backend' = [backend EXCEPT !.left = backend.left - 1]
    /\ UNCHANGED <<to_backend, ui, load_task, sent_log, taken>>
    /\ UNCHANGED <<earlyVars, entryVars, dualVars, syncVars>>

\* the handler returns
BackendDone ==
    /\ backend.st = "busy" /\ backend.left = 0
    /\ backend' = [st |-> "recv", msg |-> None, left |-> 0]
    /\ UNCHANGED <<to_backend, to_frontend, ui, load_task, sent_log, taken>>
    /\ UNCHANGED <<earlyVars, entryVars, dualVars, syncVars>>

\* todo!() / panic! / unwrap in launch or download_all_metadata
BackendPanic ==
    /\ backend.st = "busy"
    /\ backend.msg \in {"StartInstance", "DownloadAllMetadata"}
    /\ backend' = [st |-> "panicked", msg |-> backend.msg, left |-> 0]
    /\ UNCHANGED <<to_backend, to_frontend, ui, load_task, sent_log, taken>>
    /\ UNCHANGED <<earlyVars, entryVars, dualVars, syncVars>>

\* try_send_to_backend in a load task: sender.send(..).await
LoadTaskSend ==
    /\ load_task > 0
    /\ HasRoom(to_frontend)
    /\ to_frontend' = to_frontend + 1
    /\ load_task' = load_task - 1
    /\ UNCHANGED <<to_backend, ui, backend, sent_log, taken>>
    /\ UNCHANGED <<earlyVars, entryVars, dualVars, syncVars>>

InitBridge ==
    /\ to_backend = <<>>
    /\ to_frontend = 0
    /\ ui = [st |-> "idle", msg |-> None]
    /\ backend = [st |-> "recv", msg |-> None, left |-> 0]
    /\ load_task = 0
    /\ sent_log = <<>>
    /\ taken = 0
    /\ IdleMeta /\ IdleProv /\ IdleSem /\ IdleFn /\ IdleRt /\ IdleLaunch
    /\ IdleTracker /\ IdleEntry /\ IdleDual /\ IdleSync

NextBridge ==
    \/ \E m \in MessagesToBackend : UiSend(m)
    \/ UiSendReturns
    \/ UiRecv
    \/ BackendRecv
    \/ BackendSend
    \/ BackendDone
    \/ BackendPanic
    \/ LoadTaskSend

SpecBridge == InitBridge /\ [][NextBridge]_vars

(***************************************************************************)
(* The SyncingPage.  The page keeps two sets of sync targets: `loading`,   *)
(* the targets whose spinner is shown, and `pending`, the targets the      *)
(* GetSyncState request in flight was sent for.  A click on a checkbox     *)
(* sends SetSyncing and, when nothing is pending, a GetSyncState request   *)
(* whose answer comes back through a oneshot channel to a task of the      *)
(* page.  The backend side is not part of the sources at hand: it is taken *)
(* to receive the page's messages in the order they were sent, to apply a  *)
(* SetSyncing when it receives it, and to answer a GetSyncState with the   *)
(* state it then has, or to drop the request's channel.                    *)
(* A SyncState is represented by what it reflects: for each target, the    *)
(* number of SetSyncing messages for it applied when it was produced.      *)
(***************************************************************************)
MaxClicks == 3

\* two of the SyncTarget variants
Targets == {"Options", "Saves"}

\* SyncState::default(), also what recv.await.unwrap_or_default() gives
\* for a dropped request
DefaultSyncState == [t \in Targets |-> 0]

\* Task::ready(()), and a task whose callback has run
NoSyncTask == [st |-> "ready", val |-> DefaultSyncState]

\* the task of update_sync_state at recv.await
AwaitSyncTask == [st |-> "await", val |-> DefaultSyncState]

Sum2(f) == f["Options"] + f["Saves"]

RemoveAll_None(l, p) == l
\* page.loading.remove_all(page.pending)
RemoveAll(l, p) == l \ p

NewPending_All(l) == Targets
\* page.pending = page.loading
NewPending(l) == l

\* dropping the task that awaits a oneshot drops its receiver: the sender
\* in a queued GetSyncState is closed
DropReceiver(q) ==
    [i \in 1..Len(q) |->
        IF q[i].kind = "GetSyncState" THEN [q[i] EXCEPT !.closed = TRUE]
        ELSE q[i]]

GetSyncState == [kind |-> "GetSyncState", target |-> None, closed |-> FALSE]

SetSyncing(t) == [kind |-> "SetSyncing", target |-> t, closed |-> FALSE]

\* the checkbox's on_click listener
Click(t) ==
    /\ Sum2(set_sent) < MaxClicks
    /\ set_sent' = [set_sent EXCEPT ![t] = @ + 1]
    /\ loading' = loading \cup {t}
    /\ IF pending = {}
       THEN /\ pending' = {t}
            /\ sync_task' = AwaitSyncTask
            /\ sync_chan' = Append(DropReceiver(Append(sync_chan,
                                                        SetSyncing(t))),
                                   GetSyncState)
       ELSE /\ sync_chan' = Append(sync_chan, SetSyncing(t))
            /\ UNCHANGED <<pending, sync_task>>
    /\ UNCHANGED <<sync_state, processed>>
    /\ UNCHANGED <<earlyVars, entryVars, dualVars, bridgeVars>>

\* the backend receives the oldest message: it applies a SetSyncing; it
\* answers a GetSyncState with its state, or drops the channel
BackendSync ==
    /\ sync_chan # <<>>
    /\ sync_chan' = Tail(sync_chan)
    /\ LET m == Head(sync_chan) IN
         IF m.kind = "SetSyncing"
         THEN /\ processed' = [processed EXCEPT ![m.target] = @ + 1]
              /\ UNCHANGED sync_task
         ELSE /\ UNCHANGED processed
              /\ IF m.closed
                 THEN UNCHANGED sync_task
                 ELSE \E answered \in BOOLEAN :
                        sync_task' =
                            [st |-> "woken",
                             val |-> IF answered THEN processed
                                     ELSE DefaultSyncState]
    /\ UNCHANGED <<pending, loading, sync_state, set_sent>>
    /\ UNCHANGED <<earlyVars, entryVars, dualVars, bridgeVars>>

\* the task of update_sync_state runs after recv.await: page.update(..)
PageUpdate ==
    /\ sync_task.st = "woken"
    /\ sync_state' = sync_task.val
    /\ LET left == RemoveAll(loading, pending) IN
         /\ loading' = left
         /\ IF left # {}
            THEN /\ pending' = NewPending(left)
                 /\ sync_task' = AwaitSyncTask
                 /\ sync_chan' = Append(DropReceiver(sync_chan), GetSyncState)
            ELSE /\ pending' = {}
                 /\ sync_task' = NoSyncTask
                 /\ UNCHANGED sync_chan
    /\ UNCHANGED <<processed, set_sent>>
    /\ UNCHANGED <<earlyVars, entryVars, dualVars, bridgeVars>>

\* SyncingPage::new
InitSync ==
    /\ pending = Targets
    /\ loading = Targets
    /\ sync_state = DefaultSyncState
    /\ sync_task = AwaitSyncTask
    /\ sync_chan = <<GetSyncState>>
    /\ processed = [t \in Targets |-> 0]
    /\ set_sent = [t \in Targets |-> 0]
    /\ IdleMeta /\ IdleProv /\ IdleSem /\ IdleFn /\ IdleRt /\ IdleLaunch
    /\ IdleTracker /\ IdleEntry /\ IdleDual /\ IdleBridge

NextSync ==
    \/ \E t \in Targets : Click(t)
    \/ BackendSync
    \/ PageUpdate

SpecSync == InitSync /\ [][NextSync]_vars

\* the backend keeps receiving, and the UI thread's executor runs a task
\* that was woken
SpecSyncFair ==
    InitSync /\ [][NextSync]_vars /\ WF_vars(BackendSync) /\ WF_vars(PageUpdate)

(***************************************************************************)
(* Claims about the MetadataManager, checked under SpecMeta.               *)
(***************************************************************************)

RunningTasks == {t \in 1..Len(tasks) : Running(t)}

\* C1: for any interleaving of load, force_reload and fetch on one item, at
\* most one load task of the item is running at any time, and a running
\* task is the one the Pending entry holds (force_reload on a Pending
\* entry included).
C1_AtMostOneLoadTask ==
    /\ Cardinality(RunningTasks) <= 1
    /\ \A t \in RunningTasks : state.tag = "Pending" /\ state.handle = t

\* C2: the entry's lock is never held while its holder waits for the load
\* in flight to finish.
C2_LockNotHeldAcrossLoad ==
    \A c \in Callers :
        ~(lock = c /\ cpc[c] = "join" /\ Running(state.handle))

\* C3: a fetch on a Loaded entry starts no load task, issues no network
\* request, leaves the entry Loaded and returns the entry's shared value.
C3_LoadedFetchIsPure ==
    [][\A c \in Callers :
          (state.tag = "Loaded" /\ Fetch(c))
          => /\ state' = state
             /\ tasks' = tasks
             /\ ret'[c] = [ok |-> TRUE, val |-> state.val,
                           from |-> state.handle]]_vars

\* Two fetches have returned the value of the Loaded entry, the second one
\* with room left to start another load task.
C3_Witness ==
    /\ state.tag = "Loaded"
    /\ Len(tasks) < MaxTasks
    /\ \A c \in Callers : ret[c].ok /\ ret[c].val = state.val

\* C4: for an item with no expected hash whose cache file parses, when the
\* network fetch (or the parse of its body) fails, fetch returns Ok with the
\* cached value, whichever operation started the load.
C4_FallbackWhoeverStarted ==
    \A c \in Callers :
        LET r == ret[c] IN
        (/\ r.from # 0
         /\ item.data_hash = None
         /\ tasks[r.from].net_failed
         /\ tasks[r.from].disk0 # None
         /\ ParsesAsJson(tasks[r.from].disk0))
        => (r.ok /\ r.val = tasks[r.from].disk0)

\* C5: for an item that declares a hash (any string), fetch never returns
\* Ok with a value parsed from bytes whose SHA-1 differs from the declared
\* hash, and a cache file that matches and parses is returned without a
\* network request.
C5_DeclaredHashVerified ==
    item.data_hash # None =>
        /\ \A c \in Callers :
               ret[c].ok => HexDecode(item.data_hash) = Sha1(ret[c].val)
        /\ \A t \in 1..Len(tasks) :
               (/\ tasks[t].cache /\ tasks[t].pc # "read_cache"
                /\ tasks[t].disk0 # None
                /\ HexDecode(item.data_hash) = Sha1(tasks[t].disk0)
                /\ ParsesAsJson(tasks[t].disk0))
               => ~tasks[t].requested

\* C6: once Loaded or Error, the entry stays as it is, no load task is
\* started and every fetch returns the entry's value or error, until
\* force_reload; load does not restart an Error entry.
C6_TerminalUntilForceReload ==
    [][(state.tag \in {"Loaded", "Error"} /\ ~(\E c \in Callers : ForceReload(c)))
       => /\ state' = state
          /\ Len(tasks') = Len(tasks)
          /\ \A c \in Callers :
                 ret'[c] # ret[c] => ret'[c] = StateResult(state)]_vars

\* The entry is in Error, both callers were returned that error (one of
\* them by a fetch on the Error entry), and a restart was possible.
C6_Witness ==
    /\ state.tag = "Error"
    /\ Len(tasks) < MaxTasks
    /\ \A c \in Callers : ret[c] = StateResult(state)

\* C19: load and force_reload are fire-and-forget: a caller can always run
\* either of them to its end at once, without waiting for a load task to
\* finish, also while another caller's fetch of the item is in progress.
\* (A call that would start one task more than the model has room for is
\* not looked at.)
C19_LoadAndReloadNeverWait ==
    \A c \in Callers :
        (cpc[c] = "idle" /\ Len(tasks) < MaxTasks)
        => (ENABLED Load(c)) /\ (ENABLED ForceReload(c))

\* C20: every load task that has completed, in success or in failure and
\* for every kind of item, has sent one notification to the frontend.
C20_EveryCompletionNotifies ==
    Len(msgs) = Cardinality({t \in 1..Len(tasks) : ~Running(t)})

\* the load task t ends in this step, after a network request
FetchEnds(t) == Running(t) /\ tasks'[t].pc = "done" /\ tasks[t].requested

\* C24: the cache file is overwritten exactly when a network fetch succeeded:
\* in the step that ends a load task whose request succeeded (parsed and
\* hash-verified), whoever started the load, the cache file becomes the
\* fetched body; in the step that ends a task whose request failed, and in
\* every other step, the cache file is unchanged.
C24_CacheWrittenIffFetchSucceeded ==
    [][/\ \A t \in 1..Len(tasks) :
             FetchEnds(t) =>
                IF tasks'[t].net_failed THEN cache_file' = cache_file
                ELSE cache_file' = tasks'[t].result.val
       /\ cache_file' # cache_file =>
             \E t \in 1..Len(tasks) : FetchEnds(t) /\ ~tasks'[t].net_failed
      ]_vars

(***************************************************************************)
(* Claims about a provisioning call, checked under SpecProv and SpecSem.   *)
(***************************************************************************)

Verified(i, bytes) ==
    BlobLen(bytes) = dl[i].size /\ Sha1(bytes) = HexDecode(dl[i].sha1)

\* C7: a task skips the network iff its destination file exists and has
\* the expected SHA-1, otherwise it goes on to download; and a payload is
\* written to a destination only if it has the expected size and hash.
C7_SkipIffLocalHashWriteIfVerified ==
    /\ [][\A i \in Files :
            (tpc[i] = "read" /\ tpc'[i] \notin {"read", "dropped"})
            => /\ tpc'[i] \in {"notify", "acquire"}
               /\ tpc'[i] = "notify"
                  <=> (/\ disk[PathOf(i)] # None
                       /\ Sha1(disk[PathOf(i)]) = HexDecode(dl[i].sha1))]_vars
    /\ [](\A i \in Files :
            tpc[i] \in {"write", "writing", "orphan_write", "orphan_writing"}
            => Verified(i, got[i]))
    /\ [][\A p \in DOMAIN disk :
            disk'[p] # disk[p]
            => \/ disk'[p] = "partial"
               \/ \E i \in Files : PathOf(i) = p /\ disk'[p] = got[i]
                                   /\ Verified(i, disk'[p])]_vars

\* One task is done without a transfer and another is done having
\* downloaded and written its file.
C7_Witness ==
    \E i, j \in Files :
        /\ tpc[i] = "done" /\ got[i] = None
        /\ tpc[j] = "done" /\ got[j] # None /\ disk[PathOf(j)] = got[j]

\* C8: during one call the number of tasks between sending their request
\* and having received the body never exceeds 8, and each of them holds a
\* permit of the call's semaphore.
C8_AtMostEightTransfers ==
    /\ sem.net <= 8
    /\ sem.net + sem.permits = DownloadPermits

\* Eight transfers are in flight and a further task waits for a permit.
C8_Witness == sem.net = 8 /\ sem.acquire > 0 /\ sem.permits = 0

C10_NoStartedWorkAborted ==
    [][\A i \in Files :
          tpc[i] \in {"net", "write", "writing"} => tpc'[i] # "dropped"]_vars

\* C23: writes to a destination are atomic: at every moment a destination
\* is absent, holds the content it had before, or holds a complete payload
\* that was verified; a truncated or half-written file is never there to be
\* read by another task or left behind by an interrupted write.
C23_WritesAtomic ==
    \A p \in DOMAIN disk :
        \/ disk[p] \in {None, "b1"}
        \/ \E i \in Files : PathOf(i) = p /\ Verified(i, disk[p])

CheckErrors == {"WrongResponseSize", "Lzma", "WrongRawSize", "WrongHash"}

\* the size the response must have, and the bytes to be written
WantTransfer(i) == IF dl[i].lzma # 0 THEN dl[i].lzma ELSE dl[i].size
FinalBytes(i, bytes) == IF dl[i].lzma # 0 THEN Unlzma(bytes) ELSE bytes

\* C25: when a task fails a check it returns the error of the first check
\* that its response fails, in the order transfer size, decompression,
\* decompressed size, hash (so the transfer size is checked before any
\* decompression); the task has written nothing to its destination and the
\* tracker's count is not advanced for it.
C25_FailedCheckTypedNoWrite ==
    [][\A i \in Files :
         (tpc[i] # "failed" /\ tpc'[i] = "failed" /\ call'.err \in CheckErrors)
         => LET bytes == got'[i]
                sized == BlobLen(bytes) = WantTransfer(i)
                final == FinalBytes(i, bytes)
                unpacked == sized /\ final # "LzmaErr"
            IN /\ call'.by = i
               /\ tpc[i] \in {"net", "decompress"}
               /\ disk' = disk /\ count' = count
               /\ call'.err = "WrongResponseSize" <=> ~sized
               /\ call'.err = "Lzma" <=> (sized /\ final = "LzmaErr")
               /\ call'.err = "WrongRawSize"
                     <=> (unpacked /\ BlobLen(final) # dl[i].size)
               /\ call'.err = "WrongHash"
                     <=> (/\ unpacked /\ BlobLen(final) = dl[i].size
                          /\ Sha1(final) # HexDecode(dl[i].sha1))]_vars

\* C25: a task received a compressed payload of the right transfer size
\* that unpacks to bytes of the right size and another hash, and failed
\* with WrongHash, its destination still absent.
C25_Witness ==
    \E i \in Files :
        /\ tpc[i] = "failed" /\ call.err = "WrongHash" /\ call.by = i
        /\ dl[i].lzma # 0 /\ got[i] = "zy"
        /\ disk[PathOf(i)] = None /\ count = 0

TaskErrors == CheckErrors \cup {"Reqwest", "IoError"}

\* errors the call returns outside try_join_all
OutsideJoinErrors == {"InvalidComponentPath", "MetaLoadError", "InvalidHash",
                      "UnableToFindBinary"}

Holds(i, d) ==
    d[PathOf(i)] # None /\ Sha1(d[PathOf(i)]) = HexDecode(dl[i].sha1)

\* C21: in a re-run on the disk the previous call left, no task whose
\* destination held the expected hash when the re-run began sends a
\* request; in a re-run after a call that succeeded no task sends a
\* request, the loader does not fail, and when it has returned the count
\* equals the total.
C21_RerunReusesVerifiedFiles ==
    hist.run = 2
    => /\ \A i \in Files : Holds(i, hist.start) => sent[i] = 0
       /\ hist.prev = "ok"
            => /\ \A i \in Files : sent[i] = 0
               /\ call.st = "err" => call.err = "MetaLoadError"
               /\ call.st = "ok" => (count = total /\ total = SumSizes(Len(dl)) % U32)

\* C21: the first call downloaded b2 and succeeded; the re-run found it,
\* sent nothing and returned Ok with the count at the total.
C21_Witness ==
    /\ hist.run = 2 /\ hist.prev = "ok" /\ call.st = "ok"
    /\ \E i \in Files : hist.start[PathOf(i)] = "b2"
    /\ \A i \in Files : sent[i] = 0
    /\ count = total /\ total > 0

\* C35: in every state of a provisioning call the tracker's count is at
\* most its total.
C35_CountNeverExceedsTotal == call.st \in {"join", "ok", "err"} => count <= total

\* C30: the Java runtime tracker's first title is "Downloading Java
\* Runtime" iff the component directory did not exist before the call, and
\* "Verifying integrity of Java Runtime" iff it did.
C30_TitleTellsFreshInstall ==
    (kind = "java" /\ hist.initial_title # None)
    => /\ hist.initial_title = "Downloading Java Runtime" <=> ~hist.existed
       /\ hist.initial_title = "Verifying integrity of Java Runtime"
             <=> hist.existed

(***************************************************************************)
(* Claims about the pure functions, checked under SpecFn.                  *)
(***************************************************************************)

\* A rule that has a predicate: either one feature flag or an os
\* descriptor with a name or an arch
HasPredicate(rule) ==
    /\ rule.features.some # rule.os.some
    /\ rule.features.some => Cardinality(rule.features.flags) = 1
    /\ rule.os.some => (rule.os.name # None \/ rule.os.arch # None)

MatchingRules ==
    {i \in 1..Len(fin.rules) :
        check_rule(fin.ctx, fin.debug_assertions, fin.rules[i]) = "true"}

AllowLinux == [action |-> "Allow", features |-> NoFeatures,
               os |-> Os("linux", None, None)]
DisallowLinux == [AllowLinux EXCEPT !.action = "Disallow"]

\* C15: check_rules over a non-empty list of rules returns the action of
\* the last rule whose predicate matches (true for Allow, false for
\* Disallow), false when no rule matches; [Allow linux, Disallow linux] on
\* a linux host yields false.
C15_LastMatchingRuleWins ==
    (/\ fin.fn = "check_rules" /\ allowed # "none"
     /\ fin.rules # <<>>
     /\ \A i \in 1..Len(fin.rules) : HasPredicate(fin.rules[i]))
    => /\ allowed =
            IF MatchingRules = {} THEN "false"
            ELSE LET last == CHOOSE i \in MatchingRules :
                                 \A j \in MatchingRules : j <= i
                 IN IF fin.rules[last].action = "Allow" THEN "true"
                    ELSE "false"
       /\ (fin.rules = <<AllowLinux, DisallowLinux>> /\ fin.ctx.os = "linux")
             => allowed = "false"

\* check_rules has returned on [Allow linux, Disallow linux] on a linux
\* host.
C15_Witness ==
    /\ fin.fn = "check_rules" /\ allowed = "false"
    /\ fin.rules = <<AllowLinux, DisallowLinux>> /\ fin.ctx.os = "linux"

\* C16: check_rules on an empty rule list returns false: it neither allows
\* nor aborts, with and without debug assertions.
C16_EmptyRulesDisallow ==
    (fin.fn = "check_rules" /\ fin.rules = <<>> /\ allowed # "none")
    => allowed = "false"

\* The template with every ${name} replaced, scanning from character i:
\* "fatal" on a name outside the fixed set, "todo" on a name of the set
\* that resolve_expansion does not resolve.
RECURSIVE Substituted(_, _, _)
Substituted(natives_dir, argument, i) ==
    IF i > Len(argument) THEN [st |-> "ok", val |-> <<>>]
    ELSE IF /\ argument[i] = "$" /\ i < Len(argument)
            /\ argument[i + 1] = "{" /\ FindClose(argument, i + 1) # 0
    THEN LET end == FindClose(argument, i + 1)
             key == from_str(SubSeq(argument, i + 2, end - 1))
             rest == Substituted(natives_dir, argument, end + 1)
         IN IF key = None THEN [st |-> "fatal", val |-> <<>>]
            ELSE IF resolve_expansion(natives_dir, key).todo
            THEN [st |-> "todo", val |-> <<>>]
            ELSE IF rest.st # "ok" THEN rest
            ELSE [st |-> "ok",
                  val |-> resolve_expansion(natives_dir, key).val \o rest.val]
    ELSE LET rest == Substituted(natives_dir, argument, i + 1)
         IN IF rest.st # "ok" THEN rest
            ELSE [st |-> "ok", val |-> <<argument[i]>> \o rest.val]

\* C17: expand_argument returns the template with each ${name} of the
\* fixed set replaced by its resolved value and all other text kept in
\* order, also when a resolved value is the empty string; an unknown name
\* is a fatal error.  (Templates that use a name left as todo!() are not
\* looked at.)
C17_ExpandSubstitutesEveryPlaceholder ==
    (fin.fn = "expand_argument" /\ expanded.st # "none")
    => LET want == Substituted(fin.natives_dir, fin.argument, 1) IN
       /\ want.st = "ok" => expanded = [st |-> "ok", val |-> want.val]
       /\ want.st = "fatal" => expanded.st = "panic"

\* the name of the host OS as the rules spell it
HostOsName(ctx) ==
    CASE ctx.os = "linux" -> "linux"
      [] ctx.os = "macos" -> "osx"
      [] ctx.os = "windows" -> "windows"
      [] OTHER -> None

HostArch(ctx) ==
    CASE ctx.arch = "aarch64" -> "arm64"
      [] ctx.arch = "x86" -> "x86"
      [] OTHER -> None

\* C29: an os descriptor matches iff every present sub-field matches the
\* host: name equals the host OS, arch equals the host architecture, version
\* taken as a regex matches the host OS version; an absent sub-field imposes
\* no constraint.
C29_OsPredicateAllSubfields ==
    (fin.fn = "check_rule" /\ allowed # "none")
    => LET os == fin.rules[1].os
           want == /\ os.name # None => os.name = HostOsName(fin.ctx)
                   /\ os.arch # None => os.arch = HostArch(fin.ctx)
                   /\ os.version # None =>
                         /\ RegexIsValid(os.version)
                         /\ RegexIsMatch(os.version, fin.ctx.os_version)
       IN allowed = IF want THEN "true" ELSE "false"

\* the tokens a list of fragments should give: of each fragment that is
\* unruled or whose rules allow, each string expanded, in order
RECURSIVE WantTokens(_, _, _, _, _)
WantTokens(ctx, debug, natives_dir, arguments, i) ==
    IF i > Len(arguments) THEN <<>>
    ELSE LET a == arguments[i]
             keep == ~a.ruled \/ check_rules(ctx, debug, a.rules) = "true"
             own == IF keep
                    THEN [k \in 1..Len(a.value.strings) |->
                            expand_argument(natives_dir, a.value.strings[k]).val]
                    ELSE <<>>
         IN own \o WantTokens(ctx, debug, natives_dir, arguments, i + 1)

\* C28: the command that build returns has the tokens of the surviving JVM
\* fragments, then those of the surviving game fragments, each group in the
\* listed order; an unruled fragment survives, a ruled one iff check_rules
\* on its rules is true; each string of a fragment is one argument.
C28_BuildOrderAndFiltering ==
    (fin.fn = "build" /\ command.st = "ok")
    => command.args =
          IF fin.arguments.some
          THEN WantTokens(fin.ctx, fin.debug_assertions, fin.natives_dir,
                          fin.arguments.jvm, 1)
               \o WantTokens(fin.ctx, fin.debug_assertions, fin.natives_dir,
                             fin.arguments.game, 1)
          ELSE <<>>

\* C28: a command built from a ruled JVM fragment that was dropped, a
\* multi-valued JVM fragment and an unruled game fragment.
C28_Witness ==
    /\ fin.fn = "build" /\ command.st = "ok"
    /\ Len(fin.arguments.jvm) = 2 /\ Len(fin.arguments.game) = 1
    /\ fin.arguments.jvm[1].ruled
    /\ fin.arguments.jvm[2].value.multiple
    /\ command.args = <<<<"b">>, <<"/", "n">>, <<"a">>>>

\* the positions of the "${" of the placeholders of a template
Placeholders(argument) ==
    {i \in 1..(Len(argument) - 1) :
        /\ argument[i] = "$" /\ argument[i + 1] = "{"
        /\ FindClose(argument, i + 1) # 0}

NameAt(argument, i) ==
    SubSeq(argument, i + 2, FindClose(argument, i + 1) - 1)

\* C27: expanding a template that has a placeholder, all of whose
\* placeholders are recognized names (natives_directory, launcher_name,
\* classpath, ...), yields a token and does not abort.
C27_RecognizedNamesResolve ==
    (/\ fin.fn = "expand_argument" /\ expanded.st # "none"
     /\ Placeholders(fin.argument) # {}
     /\ \A i \in Placeholders(fin.argument) :
           from_str(NameAt(fin.argument, i)) # None)
    => expanded.st = "ok"

RECURSIVE XorOfSet(_)
XorOfSet(S) ==
    IF S = {} THEN 0
    ELSE LET h == CHOOSE x \in S : TRUE
         IN XorBits(h, XorOfSet(S \ {h}), HashBits)

\* the distinct hashes that decode, of artifacts and classifier artifacts
DistinctHashes(libraries) ==
    LET sha1s == Sha1sOf(libraries) IN
    {decode_to_slice(sha1s[k]).hash :
        k \in {j \in 1..Len(sha1s) : decode_to_slice(sha1s[j]).ok}}

\* C18: calculate_natives_dirname returns the same name for a permutation
\* of the library list and for a list with an entry repeated: the hex of
\* the XOR of the set of distinct, validly encoded hashes.
C18_DirnameOrderAndDuplicateFree ==
    (fin.fn = "calculate_natives_dirname" /\ dirname.st = "ok")
    => /\ dirname.of_list = dirname.of_variant
       /\ dirname.of_list = encode(XorOfSet(DistinctHashes(fin.libraries)))

\* The name of a list of two libraries with the same artifact hash in two
\* letter cases and another hash, and of that list with an entry repeated.
C18_Witness ==
    /\ fin.fn = "calculate_natives_dirname" /\ dirname.st = "ok"
    /\ Len(fin.libraries) = 2 /\ Len(dirname.variant) = 3
    /\ fin.libraries[1].artifact = "a" /\ fin.libraries[2].artifact = "A"
    /\ fin.libraries[1].classifiers = <<"3">>
    /\ dirname.of_list = "9"

(***************************************************************************)
(* Claims about the runtime manifest, checked under SpecRt.                *)
(***************************************************************************)

CreatedLinks == {p \in created : fs[p].type = "link"}

\* C11: symlinks are created only after every file task of the call has
\* succeeded (none if a file task failed), and only with a resolved target
\* inside the runtime component directory; a link whose target is not
\* inside is skipped without failing the call.
C11_LinksAfterTasksAndInsideRoot ==
    /\ CreatedLinks # {} => \A k \in DOMAIN rtasks : rtasks[k].st = "done"
    /\ (\E k \in DOMAIN rtasks : rtasks[k].st = "failed") => CreatedLinks = {}
    /\ \A p \in CreatedLinks :
           /\ fs[p].target \in DOMAIN fs
           /\ StartsWith(fs[p].target, runtime_component_dir)
    /\ rcall.st = "err" => rcall.err \in {"InvalidHash", "Task",
                                          "UnableToFindBinary"}

\* A call returned Ok having created one link and skipped another link
\* entry of its manifest.
C11_Witness ==
    /\ rcall.st = "ok" /\ CreatedLinks # {}
    /\ \E i \in 1..Len(manifest) :
           /\ manifest[i].type = "link"
           /\ path_is_normal(unix, manifest[i].path)
           /\ Join(runtime_component_dir, manifest[i].path) \notin DOMAIN fs

\* the path has a parent, root, prefix or current-dir component
HasBadComponent(path) ==
    \E k \in 1..Len(Components(unix, path)) :
        Components(unix, path)[k] \in {"ParentDir", "RootDir", "Prefix",
                                       "CurDir"}

GoodFiles == {i \in 1..Len(manifest) :
                 manifest[i].type = "file" /\ ~HasBadComponent(manifest[i].path)}

RECURSIVE SizeOf(_)
SizeOf(S) == IF S = {} THEN 0
             ELSE LET i == CHOOSE x \in S : TRUE
                  IN manifest[i].size + SizeOf(S \ {i})

\* C12: an entry whose path has a parent, root, prefix or current-dir
\* component is skipped without failing the call: nothing is created
\* outside the runtime component directory, and the tasks and the tracker
\* total are those of the other file entries.
C12_AbnormalEntriesSkipped ==
    /\ \A p \in created : StartsWith(p, runtime_component_dir)
    /\ (rcall.st # "idle" /\ rcall.err # "InvalidHash")
         => /\ {rtasks[k].path : k \in DOMAIN rtasks}
                  = {Join(runtime_component_dir, manifest[i].path)
                       : i \in GoodFiles}
            /\ Len(rtasks) = Cardinality(GoodFiles)
            /\ rtotal = SizeOf(GoodFiles)
    /\ rcall.err = "InvalidHash"
         => \E i \in GoodFiles : ~manifest[i].hash_ok

\* A call returned Ok on a manifest with a file entry and a directory
\* entry that were skipped.
C12_Witness ==
    /\ rcall.st = "ok"
    /\ \E i, j \in 1..Len(manifest) :
           /\ manifest[i].type = "file" /\ HasBadComponent(manifest[i].path)
           /\ manifest[j].type = "directory"
           /\ HasBadComponent(manifest[j].path)

(***************************************************************************)
(* Claims about a launch, checked under SpecLaunch.                        *)
(***************************************************************************)
PhasesOf(a) == {a.instance, a.manifest, a.lookup, a.info, a.path, a.java,
                a.assets, a.spawn}

Failed(a) == "err" \in PhasesOf(a)

\* C13: the game process of a launch attempt is spawned only when the
\* version manifest fetch, the version lookup, the version metadata fetch,
\* the Java runtime provisioning and the asset provisioning of that attempt
\* have all succeeded; an attempt with a failed phase has spawned nothing.
C13_SpawnOnlyAfterAllPhases ==
    /\ attempt.spawned =>
          /\ attempt.manifest = "ok" /\ attempt.lookup = "ok"
          /\ attempt.info = "ok"
          /\ attempt.java = "ok" /\ attempt.assets = "ok"
    /\ Failed(attempt) => ~attempt.spawned

\* C13: a launch attempt went through all its phases and spawned the game.
C13_Witness ==
    /\ attempt.spawned /\ spawned = 1
    /\ attempt.java = "ok" /\ attempt.assets = "ok"
    /\ launch_tracker.count = 3

\* C14: when a phase of a launch attempt has failed, the launch has ended
\* with a failure reported on a progress tracker marked as error, and the
\* backend task is still there to handle later messages.
C14_FailureReportedBackendAlive ==
    Failed(attempt) =>
        /\ bpc # "panicked"
        /\ launch_tracker.error

\* C34: when a launch has ended, by the spawn of the game or by the
\* failure of a phase, every progress tracker it pushed to the shared list
\* is marked finished.
C34_PushedTrackersFinished ==
    (attempt.instance = "ok" /\ bpc \in {"recv", "panicked"})
    => \A t \in {launch_tracker, java_tracker, assets_tracker} :
           t.pushed => t.finished


(***************************************************************************)
\* a single normal path segment, as a string: one segment that is not
\* empty, `.`, `..`, a root or a drive
SingleNormalSegment(path) ==
    Len(path) = 1 /\ path[1] \notin {"", ".", "..", "/"}

\* what the path resolves to: `.` after the first segment names no place
Normalised(path) ==
    LET keep == {i \in 1..Len(path) : i = 1 \/ path[i] # "."}
        RECURSIVE Pick(_)
        Pick(i) == IF i > Len(path) THEN <<>>
                   ELSE (IF i \in keep THEN <<path[i]>> ELSE <<>>)
                        \o Pick(i + 1)
    IN Pick(1)

RejectedEarly ==
    /\ jbin.pc = "done" /\ jbin.result = "InvalidComponentPath"
    /\ jbin.mkdirs = 0 /\ jbin.requests = 0

\* C31 (as stated): if the component id or the platform key is not a
\* single normal path segment, the function fails with InvalidComponentPath
\* before any directory is created and any request is issued.
C31_BadSegmentRejectedEarly ==
    (/\ jbin.pc # "validate"
     /\ \/ ~SingleNormalSegment(JreComponent(jbin.java_version))
        \/ ~SingleNormalSegment(<<Platform(jbin.os, jbin.arch)>>))
    => RejectedEarly

\* C31 (amended): the same for a component id or platform key that does
\* not resolve to a single normal segment: an id such as `a/.` names
\* the segment `a` and is accepted.
C31_UnresolvedSegmentRejectedEarly ==
    (/\ jbin.pc # "validate"
     /\ \/ ~SingleNormalSegment(Normalised(JreComponent(jbin.java_version)))
        \/ ~SingleNormalSegment(<<Platform(jbin.os, jbin.arch)>>))
    => RejectedEarly

\* C31: the component id `..` was rejected with no directory made and no
\* request sent.
C31_Witness ==
    /\ jbin.java_version = [some |-> TRUE, component |-> <<"..">>]
    /\ RejectedEarly

(***************************************************************************)
(* Claims about the two phases of a launch, checked under SpecDual.        *)
(***************************************************************************)
\* C32: the two phases run concurrently, each under its own 8 permits: a
\* phase has at most 8 transfers in flight, and a task waiting for a
\* permit goes on whenever fewer than 8 transfers of its own phase are in
\* flight, whatever the other phase holds.
C32_PhasesHaveOwnPermits ==
    \A ph \in Phases :
        /\ dual[ph].net <= 8
        /\ (dual[ph].st = "join" /\ dual[ph].acquire > 0 /\ dual[ph].net < 8)
           => ENABLED DualAcquire(ph)

\* C32: both phases are downloading: the Java phase has 8 transfers in
\* flight and a task waiting, the assets phase has transfers in flight and
\* a task waiting for one of its own permits that is free.
C32_Witness ==
    /\ dual["java"].st = "join" /\ dual["assets"].st = "join"
    /\ dual["java"].net = 8 /\ dual["java"].acquire > 0
    /\ dual["assets"].net \in 1..7 /\ dual["assets"].acquire > 0

(***************************************************************************)
(* Claims about the bridge, checked under SpecBridge.                      *)
(***************************************************************************)
\* C33: the backend takes a message only when the handling of the last one
\* has returned, and it takes them in the order of their arrival: the
\* message taken is the oldest not yet taken, and while a StartInstance or
\* a DownloadAllMetadata is being handled nothing is taken.
C33_OneMessageAtATimeInOrder ==
    [][taken' # taken
       => /\ backend.st = "recv"
          /\ taken' = taken + 1
          /\ Head(to_backend) = sent_log[taken']
          /\ to_backend' = Tail(to_backend)]_vars

\* C33: a launch is in progress while a second StartInstance, sent after
\* it, waits in the queue.
C33_Witness ==
    /\ backend.st = "busy" /\ backend.msg = "StartInstance"
    /\ taken = 1 /\ Len(sent_log) >= 2 /\ sent_log[2] = "StartInstance"
    /\ to_backend # <<>> /\ Head(to_backend) = "StartInstance"

\* the backend task waits in send for room in the channel to the frontend
\* while the UI thread waits in blocking_send for room in the channel to
\* the backend
Deadlocked ==
    /\ backend.st = "busy" /\ backend.left > 0 /\ ~HasRoom(to_frontend)
    /\ ui.st = "blocking_send" /\ ~HasRoom(Len(to_backend))

\* C39: the two channels cannot deadlock.
C39_NoChannelDeadlock == ~Deadlocked

(***************************************************************************)
(* Claims about the SyncingPage, checked under SpecSync and SpecSyncFair.  *)
(***************************************************************************)
\* a GetSyncState request whose result the page has not applied yet
Outstanding == sync_task.st \in {"await", "woken"}

\* C36: whenever a target is not in `loading`, the displayed sync_state
\* reflects every SetSyncing message the page has sent for that target.
C36_HiddenSpinnerMeansFresh ==
    \A t \in Targets : t \notin loading => sync_state[t] = set_sent[t]

\* C37: a request is outstanding iff `pending` is non-empty (so there is
\* never more than the one request of the page's task, and every
\* GetSyncState still queued with an open channel is that one), and
\* `pending` is a subset of `loading`.
C37_OneRequestIffPending ==
    /\ Outstanding <=> pending # {}
    /\ pending \subseteq loading
    /\ Cardinality({i \in 1..Len(sync_chan) :
                      /\ sync_chan[i].kind = "GetSyncState"
                      /\ ~sync_chan[i].closed})
         = IF sync_task.st = "await" THEN 1 ELSE 0

\* C37: a click on a second target while the request of the first click is
\* still queued: one request, pending smaller than loading.
C37_Witness ==
    /\ pending = {"Options"} /\ loading = Targets
    /\ sync_task.st = "await"
    /\ set_sent["Saves"] = 1

Quiet == loading = {} /\ ~Outstanding

\* C38: the clicks being finitely many and the backend answering or
\* dropping every request, from some point on `loading` is empty and no
\* request is outstanding.
C38_SpinnersEventuallyGone == <>[]Quiet

\* C38: the user has clicked as often as they will, on both targets, and
\* every spinner is gone with nothing in flight.
C38_Witness ==
    /\ Sum2(set_sent) = MaxClicks
    /\ set_sent["Options"] > 0 /\ set_sent["Saves"] > 0
    /\ Quiet /\ sync_chan = <<>>

(***************************************************************************)
(* Claims about ProgressTracker, checked under SpecTracker.                *)
(***************************************************************************)
\* C22: for any interleaving of concurrent set_finished calls on one
\* tracker, finished_at is recorded by exactly the first call to reach the
\* compare-and-set (it holds that call's time) and it never changes
\* afterwards.
C22_FirstFinisherRecordsTime ==
    [][/\ (cas_log' # <<>>) => finished_at' = <<cas_log'[1].now>>
       /\ (cas_log' = <<>>) => finished_at' = <<>>
       /\ (finished_at # <<>>) => finished_at' = finished_at]_vars

\* C22: two calls have made their compare-and-set with different times, the
\* later one with the earlier time, and the first one's time is recorded.
C22_Witness ==
    /\ Len(cas_log) >= 2
    /\ cas_log[1].by # cas_log[2].by
    /\ cas_log[2].now < cas_log[1].now
    /\ finished_at = <<cas_log[1].now>>

=============================================================================
